---- MODULE Spec2Model ----
(***************************************************************************)
(* Retrieval engine of the AI use-case navigator: the VectorStore          *)
(* (services/api/services/vector_store.py) and the RAGEngine               *)
(* (services/api/services/rag_engine.py).                                  *)
(*                                                                         *)
(* Conventions                                                             *)
(*  - Scores are integers in units of 1/10000 (0.30 is 3000).  Cosine      *)
(*    similarities and normalised lexical scores are in hundredths, the    *)
(*    latter rounded down, before 0.6 * semantic + 0.4 * lexical.          *)
(*  - A text (query, title) is a sequence of lower-case tokens; the        *)
(*    regular expressions and substring tests of the code are evaluated    *)
(*    on tokens.                                                           *)
(*  - The encoders (sentence-transformers, TF-IDF) and BM25 are external:  *)
(*    their similarity values are a fixed but arbitrary function of the    *)
(*    encoder, the query and the passage text, selected by env.seed.       *)
(***************************************************************************)
EXTENDS Integers, Sequences, FiniteSets, TLC

VARIABLES
    store,   \* the VectorStore instance of the running process
    disk,    \* the artifacts in embeddings_dir
    env,     \* the installation: packages and encoder behaviour
    ops,     \* how many builds, restarts, damages and installs have happened
    call,    \* the last VectorStore operation: its inputs and its outcome
    rag,     \* the last RAGEngine operation: its inputs and its outcome
    threads, \* the worker threads inside retrieve: their positions and locals
    build    \* a rebuild by another process: its store and its position

vars == <<store, disk, env, ops, call, rag, threads, build>>

\* ------------------------------------------------------------------------
\* Bounds of the model
\* ------------------------------------------------------------------------
MaxTopK == 2
MaxOps == 3
MaxParagraphs == 11

\* ------------------------------------------------------------------------
\* Program constants (scores in 1/10000)
\* ------------------------------------------------------------------------
SemDim == 384
MaxFeatures == 5000
RegulationBoost == 3000
ArticleBoost == 4000
ChapterBoost == 500
SectionBoost == 800
HighThreshold == 5000
MediumThreshold == 3000
DefaultMinScore == 500
PlanTopK == 12
FallbackTopK == 8
PlanMinScore == 500
WeakMerge == 3
MaxQueries == 4
FallbackQueries == 2
MaxRanked == 6
FilteredLookupScore == 4200
GlobalLookupScore == 3100
LexicalSuppression == 500
SemanticSuppression == 2000

\* Python's None and a present value; Val gives the value
None == <<>>
Some(x) == <<x>>
Val(o) == o[1]
Regulations == {"EU AI Act", "GDPR", "DORA"}
SourceOrder == <<"EU AI Act", "GDPR", "DORA">>

\* ------------------------------------------------------------------------
\* Generic helpers
\* ------------------------------------------------------------------------
Range(s) == {s[i] : i \in DOMAIN s}

Min2(a, b) == IF a < b THEN a ELSE b

RECURSIVE SumSeq(_)
SumSeq(s) == IF s = <<>> THEN 0 ELSE Head(s) + SumSeq(Tail(s))

RECURSIVE MaxSeq(_)
MaxSeq(s) == IF Len(s) = 1 THEN s[1]
             ELSE LET m == MaxSeq(Tail(s)) IN IF s[1] > m THEN s[1] ELSE m

\* F applied to the value of v, computed once
With(v, F(_)) == CHOOSE y \in {F(x) : x \in {v}} : TRUE

RECURSIVE Flatten(_)
Flatten(ss) == IF ss = <<>> THEN <<>> ELSE Head(ss) \o Flatten(Tail(ss))

\* ------------------------------------------------------------------------
\* Tokens
\* ------------------------------------------------------------------------
DigitTokens == {"5", "6", "19", "22", "60", "99"}

\* words of at most 3 letters: re.findall(r"[a-z]+", ...) with len(w) > 3
\* keeps the alphabetic tokens that are not among them
ShortWords == {"a", "an", "of", "for", "and", "or", "to", "in", "on", "is",
               "are", "be", "by", "it", "at", "as", "not", "do", "the",
               "ai", "act", "eu", "ict", "vs", "say", "art"}

\* the _stop set of retrieve
StopWords == {"the", "a", "an", "of", "for", "and", "or", "to", "in", "on",
              "is", "are", "be", "by", "with", "this", "that", "it", "at",
              "as", "from", "which", "when", "not", "does", "do", "have"}

ContentWords(text) ==
    {w \in Range(text) :
        w \notin DigitTokens /\ w \notin ShortWords /\ w \notin StopWords}

\* substring tests of the code, on tokens
ContainsDora(text) == \E i \in DOMAIN text : text[i] \in {"dora", "pandora"}
ContainsGdpr(text) == \E i \in DOMAIN text : text[i] = "gdpr"
ContainsAiAct(text) ==
    \E i \in DOMAIN text : i < Len(text) /\ text[i] = "ai" /\ text[i + 1] = "act"

\* re.findall(r"article\s+(\d+)\b", text), in order of occurrence
RECURSIVE ArticleNumbersFrom(_, _)
ArticleNumbersFrom(text, i) ==
    IF i >= Len(text) THEN <<>>
    ELSE IF text[i] = "article" /\ text[i + 1] \in DigitTokens
         THEN <<text[i + 1]>> \o ArticleNumbersFrom(text, i + 2)
         ELSE ArticleNumbersFrom(text, i + 1)

FindArticleNumbers(text) == ArticleNumbersFrom(text, 1)

\* ------------------------------------------------------------------------
\* Structural registry (_STRUCTURE_MAP, _ARTICLE_TITLES): the rows that cover
\* the article numbers of the modelled sources
\* ------------------------------------------------------------------------
ToInt(num) ==
    CASE num = "5" -> 5 [] num = "6" -> 6 [] num = "19" -> 19
      [] num = "22" -> 22 [] num = "60" -> 60 [] num = "99" -> 99

\* str.zfill(3) on the digits of the article number
Pad3(num) ==
    CASE num = "5" -> "005" [] num = "6" -> "006" [] num = "19" -> "019"
      [] num = "22" -> "022" [] num = "60" -> "060" [] num = "99" -> "099"

StructureMap(regulation) ==
    CASE regulation = "EU AI Act" ->
           << <<5, 5, "II", <<"prohibited", "ai", "practices">>, "", <<>> >>,
              <<6, 7, "III", <<"high", "risk", "ai", "systems">>, "1",
                <<"classification", "rules", "for", "high", "risk", "ai", "systems">> >>,
              <<57, 63, "VI",
                <<"measures", "in", "support", "of", "innovation", "ai",
                  "regulatory", "sandboxes">>, "", <<>> >> >>
      [] regulation = "GDPR" ->
           << <<5, 11, "II", <<"principles">>, "", <<>> >>,
              <<21, 22, "III", <<"rights", "of", "the", "data", "subject">>, "4",
                <<"right", "to", "object", "and", "automated", "individual",
                  "decision", "making">> >>,
              <<92, 99, "X",
                <<"delegated", "acts", "and", "implementing", "acts">>, "", <<>> >> >>
      [] regulation = "DORA" ->
           << <<5, 16, "II", <<"ict", "risk", "management">>, "", <<>> >>,
              <<17, 23, "III",
                <<"ict", "related", "incident", "management", "classification",
                  "and", "reporting">>, "", <<>> >> >>
      [] OTHER -> <<>>

ArticleTitles(regulation, n) ==
    CASE regulation = "EU AI Act" /\ n = 6 ->
           <<"classification", "rules", "for", "high", "risk", "ai", "systems">>
      [] regulation = "GDPR" /\ n = 6 -> <<"lawfulness", "of", "processing">>
      [] regulation = "GDPR" /\ n = 22 ->
           <<"automated", "individual", "decision", "making", "including", "profiling">>
      [] regulation = "DORA" /\ n = 6 ->
           <<"ict", "systems", "protocols", "and", "tools">>
      [] regulation = "DORA" /\ n = 19 ->
           <<"reporting", "of", "major", "ict", "related", "incidents">>
      [] OTHER -> <<>>

\* _get_article_context: the first row whose range holds the number
get_article_context(article_num_str, regulation) ==
    LET n == ToInt(article_num_str)
        rows == StructureMap(regulation)
        hits == {i \in DOMAIN rows : rows[i][1] <= n /\ n <= rows[i][2]}
        first == CHOOSE i \in hits : \A j \in hits : i <= j
    IN  [chapter_num   |-> IF hits = {} THEN "" ELSE rows[first][3],
         chapter_title |-> IF hits = {} THEN <<>> ELSE rows[first][4],
         section_num   |-> IF hits = {} THEN "" ELSE rows[first][5],
         section_title |-> IF hits = {} THEN <<>> ELSE rows[first][6],
         article_title |-> ArticleTitles(regulation, n)]

\* dict.get(key, default)
MetaGet(metadata, key, default) ==
    IF key \in DOMAIN metadata THEN metadata[key] ELSE default

\* dict.update(ctx)
MetaUpdate(metadata, ctx) ==
    [k \in (DOMAIN metadata) \cup (DOMAIN ctx) |->
        IF k \in DOMAIN ctx THEN ctx[k] ELSE metadata[k]]

\* a label "Article 6", "Recital 99", "Annex III Point 5(b)": kind, the first
\* run of digits after the kind, and what follows those digits
Label(kind, num, suffix) == [kind |-> kind, num |-> num, suffix |-> suffix]

\* _build_breadcrumb
build_breadcrumb(doc_metadata, regulation, article) ==
    LET chap_num   == MetaGet(doc_metadata, "chapter_num", "")
        chap_title == MetaGet(doc_metadata, "chapter_title", <<>>)
        sec_num    == MetaGet(doc_metadata, "section_num", "")
        sec_title  == MetaGet(doc_metadata, "section_title", <<>>)
        art_title  == MetaGet(doc_metadata, "article_title", <<>>)
    IN  <<regulation>>
        \o (IF chap_num # "" /\ chap_title # <<>>
            THEN << <<"Chapter", chap_num, chap_title>> >> ELSE <<>>)
        \o (IF sec_num # "" /\ sec_title # <<>>
            THEN << <<"Section", sec_num, sec_title>> >> ELSE <<>>)
        \o << <<article, art_title>> >>

\* regulation.lower().replace(" ", "_")
RegKey(regulation) ==
    CASE regulation = "EU AI Act" -> "eu_ai_act"
      [] regulation = "GDPR" -> "gdpr"
      [] regulation = "DORA" -> "dora"

\* ------------------------------------------------------------------------
\* Source texts (the output of pdftotext, by structure).  Each passage text
\* has an identity, the words BM25 sees in it, and the number of TF-IDF
\* features (uni- and bigrams) its enriched text contributes.
\* ------------------------------------------------------------------------
Text(id, vocab, words) == [id |-> id, vocab |-> vocab, words |-> words]

PdfText(regulation) ==
    CASE regulation = "EU AI Act" ->
           [recitals |-> <<>>,
            articles |-> << [num |-> "6", suffix |-> "",
                             paras |-> << Text(1, 150, {"high", "risk", "classification"}) >>],
                            [num |-> "60", suffix |-> "",
                             paras |-> << Text(2, 120, {"sandboxes", "testing"}) >>] >>,
            annex_iii |-> << [point |-> "5", letter |-> "b",
                              text |-> Text(3, 90, {"credit", "risk", "services"})] >>,
            annexes |-> <<>>]
      [] regulation = "GDPR" ->
           [recitals |-> << [num |-> "99", text |-> Text(4, 84, {"codes", "conduct"})] >>,
            articles |-> << [num |-> "22", suffix |-> "",
                             paras |-> << Text(5, 150, {"automated", "decision", "profiling"}),
                                          Text(6, 100, {"rights", "data", "subject"}) >>],
                            [num |-> "6", suffix |-> "a",
                             paras |-> << Text(7, 50, {"lawfulness", "processing", "data"}) >>] >>,
            annex_iii |-> <<>>,
            annexes |-> <<>>]
      [] regulation = "DORA" ->
           [recitals |-> <<>>,
            articles |-> << [num |-> "6", suffix |-> "",
                             paras |-> << Text(8, 70, {"ict", "risk", "management"}) >>],
                            [num |-> "19", suffix |-> "",
                             paras |-> << Text(9, 60, {"incident", "reporting"}) >>] >>,
            annex_iii |-> <<>>,
            annexes |-> <<>>]

\* _extract_recitals
extract_recitals(text, regulation) ==
    [i \in DOMAIN text.recitals |->
        LET r == text.recitals[i] IN
        [text         |-> r.text,
         regulation   |-> regulation,
         article      |-> Label("Recital", r.num, ""),
         section_type |-> "recital",
         metadata     |-> [recital_number |-> r.num,
                           chapter_num    |-> "Preamble",
                           chapter_title  |-> <<"recitals">>,
                           section_num    |-> "",
                           section_title  |-> <<>>,
                           article_title  |-> <<"recital", r.num>>],
         chunk_id     |-> <<RegKey(regulation), "recital", r.num>>,
         breadcrumb   |-> <<regulation, "Preamble", <<"Recital", r.num>> >>]]

\* _extract_articles: one chunk per paragraph of each article
ArticleChunks(a, regulation) ==
    [idx \in DOMAIN a.paras |->
        LET ctx      == get_article_context(a.num, regulation)
            metadata == MetaUpdate([article_number |-> a.num \o a.suffix,
                                    paragraph      |-> idx], ctx)
            label    == Label("Article", a.num, a.suffix)
        IN  [text         |-> a.paras[idx],
             regulation   |-> regulation,
             article      |-> label,
             section_type |-> "article",
             metadata     |-> metadata,
             chunk_id     |-> <<RegKey(regulation), "art", Pad3(a.num) \o a.suffix,
                                "para", idx>>,
             breadcrumb   |-> build_breadcrumb(metadata, regulation, label)]]

extract_articles(text, regulation) ==
    Flatten([i \in DOMAIN text.articles |-> ArticleChunks(text.articles[i], regulation)])

\* _extract_annex_iii_points: the lettered sub-points of Annex III of the
\* EU AI Act
extract_annex_iii_points(text) ==
    [i \in DOMAIN text.annex_iii |->
        LET p == text.annex_iii[i] IN
        [text         |-> p.text,
         regulation   |-> "EU AI Act",
         article      |-> Label("Annex", p.point, p.letter),
         section_type |-> "annex",
         metadata     |-> [annex         |-> "III",
                           point         |-> p.point,
                           subpoint      |-> p.letter,
                           chapter_num   |-> "Annex III",
                           chapter_title |-> <<"list", "of", "high", "risk", "ai",
                                               "systems", "referred", "to", "in",
                                               "article", "6">>,
                           section_num   |-> p.point,
                           section_title |-> <<"access", "to", "and", "enjoyment", "of",
                                               "essential", "private", "services">>,
                           article_title |-> <<"point", p.point, p.letter>>],
         chunk_id     |-> <<"eu_ai_act", "annex_iii", p.point \o p.letter>>,
         breadcrumb   |-> <<"EU AI Act", "Annex III", <<"Point", p.point>>,
                            <<"Sub-point", p.letter>> >>]]

\* _extract_annexes, for an annex other than Annex III of the EU AI Act
AnnexChunk(a, regulation) ==
    [text         |-> a.text,
     regulation   |-> regulation,
     article      |-> Label("Annex", "", a.num),
     section_type |-> "annex",
     metadata     |-> [annex_number  |-> a.num,
                       chapter_num   |-> "Annex",
                       chapter_title |-> <<"annex", a.num>>,
                       section_num   |-> "",
                       section_title |-> <<>>,
                       article_title |-> <<"annex", a.num>>],
     chunk_id     |-> <<RegKey(regulation), "annex", a.num>>,
     breadcrumb   |-> <<regulation, <<"Annex", a.num>> >>]

\* _extract_annexes: Annex III of the EU AI Act by sub-point, any other annex
\* as one passage
extract_annexes(text, regulation) ==
    (IF regulation = "EU AI Act" THEN extract_annex_iii_points(text) ELSE <<>>)
    \o [i \in DOMAIN text.annexes |-> AnnexChunk(text.annexes[i], regulation)]

\* _parse_pdf: extraction == "ok" when pdftotext succeeds; any failure of it
\* gives no passages for the source
ParseText(full_text, regulation) ==
    extract_recitals(full_text, regulation)
    \o extract_articles(full_text, regulation)
    \o extract_annexes(full_text, regulation)

parse_pdf(extraction, regulation) ==
    IF extraction # "ok" THEN <<>> ELSE ParseText(PdfText(regulation), regulation)

\* ------------------------------------------------------------------------
\* Encoders and lexical ranking (external libraries)
\* ------------------------------------------------------------------------
TokenList == <<"what", "does", "article", "5", "6", "19", "22", "60", "99",
               "gdpr", "dora", "pandora", "ai", "act", "eu", "say", "rights",
               "data", "subject", "risk", "compare", "high", "annex", "iii",
               "classification", "systems", "automated", "decision", "making",
               "profiling", "legal", "effects", "text", "scope", "paragraph",
               "interpretation", "obligations", "requirements", "shall", "must",
               "compliance", "actions", "definition", "meaning", "exception",
               "comparison", "overlap", "differences", "alignment", "conditions",
               "and", "management">>

TokCodes == [t \in Range(TokenList) |-> CHOOSE i \in DOMAIN TokenList : TokenList[i] = t]

TokCode(t) == IF t \in DOMAIN TokCodes THEN TokCodes[t] ELSE 0

\* the identity of a query text, as seen by an encoder
RECURSIVE QHash(_)
QHash(q) == IF q = <<>> THEN 0
            ELSE (TokCode(Head(q)) * (Len(q) + 2) + QHash(Tail(q))) % 97

\* cosine similarities, in hundredths
SemanticLevels == <<-70, -40, 0, 20, 45, 90>>
LexicalLevels == <<0, 10, 35, 60>>

\* the encoder that produced a vector: "st" for the sentence-transformers
\* model, the fitted corpus for a TF-IDF vectorizer
ModelEncoder == [kind |-> "st", fit |-> <<>>]
VectorizerEncoder(v) == [kind |-> "tfidf", fit |-> v.fit]

\* np.dot(embeddings, query_embedding) / norms, for one row: a fixed function
\* of the encoder pair, the query and the text the row was computed from
Cosine(seed, encoder, emb, qh, r) ==
    LET t == emb.rows[r]
        h == (seed * 31 + qh * 17 + t * 13 + t * qh * 7 + seed * t * 3) % 101
    IN  IF encoder = emb.enc
        THEN IF encoder.kind = "st"
             THEN SemanticLevels[(h % Len(SemanticLevels)) + 1]
             ELSE LexicalLevels[((h + Len(encoder.fit)) % Len(LexicalLevels)) + 1]
        ELSE SemanticLevels[((h * 3 + 1) % Len(SemanticLevels)) + 1]

\* TfidfVectorizer(max_features=5000).fit: the vocabulary of the corpus
VocabDim(documents) ==
    Min2(MaxFeatures, SumSeq([i \in DOMAIN documents |-> documents[i].text.vocab]))

TextIds(documents) == [i \in DOMAIN documents |-> documents[i].text.id]

\* BM25Okapi(corpus).get_scores(tokens), for one passage: the occurrences of
\* query tokens in the passage text
Bm25Raw(bm25, q, i) ==
    Cardinality({k \in DOMAIN q : q[k] \in bm25.corpus[i]})

\* _embedding_dimension
embedding_dimension(embeddings) ==
    IF embeddings = None THEN None ELSE Some(Val(embeddings).dim)

\* _model_dimension
model_dimension(model) == model.dim

\* a vectorizer that was never fitted: no vocabulary_, and transform raises
Unfitted == [fit |-> <<>>, dim |-> 0]

\* _vectorizer_dimension: the size of vocabulary_, else the width of a probe
\* transform, else None
vectorizer_dimension(vectorizer) ==
    IF vectorizer = None THEN None
    ELSE IF Val(vectorizer) = Unfitted THEN None
    ELSE Some(Val(vectorizer).dim)

\* SentenceTransformer("all-MiniLM-L6-v2")
SentenceTransformer == [dim |-> SemDim]

\* _init_bm25: ImportError leaves no index; BM25Okapi divides by the corpus
\* size, so an empty corpus raises
init_bm25(s, e) ==
    IF ~e.rank_bm25 THEN [raised |-> FALSE, store |-> [s EXCEPT !.bm25 = None]]
    ELSE IF s.documents = <<>> THEN [raised |-> TRUE, store |-> s]
    ELSE [raised |-> FALSE,
          store |-> [s EXCEPT !.bm25 =
                        Some([corpus |-> [i \in DOMAIN s.documents |->
                                             s.documents[i].text.words]])]]

\* TfidfVectorizer(...) after fit_transform on the enriched texts
FittedVectorizer(documents) == [fit |-> TextIds(documents), dim |-> VocabDim(documents)]

\* _generate_tfidf_embeddings
generate_tfidf_embeddings(s) ==
    With(FittedVectorizer(s.documents),
         LAMBDA v :
            [s EXCEPT !.vectorizer = Some(v),
                      !.embeddings = Some([enc  |-> VectorizerEncoder(v),
                                           dim  |-> v.dim,
                                           rows |-> v.fit])])

\* _rebuild_tfidf_runtime
rebuild_tfidf_runtime(s, e) ==
    IF s.documents = <<>> THEN [ok |-> FALSE, store |-> s]
    ELSE IF ~e.sklearn
         THEN [ok |-> FALSE, store |-> [s EXCEPT !.model = None]]
         ELSE With(generate_tfidf_embeddings([s EXCEPT !.model = None]),
                   LAMBDA s1 :
                      With(init_bm25(s1, e),
                           LAMBDA b :
                              IF b.raised THEN [ok |-> FALSE, store |-> s1]
                              ELSE [ok |-> b.store.vectorizer # None
                                           /\ b.store.embeddings # None,
                                    store |-> b.store]))

\* a chain without the lazy load
RebuildOnly(s, e, target_dim) == rebuild_tfidf_runtime(s, e)

\* _ensure_query_encoder, from the lazy load on (lines 425-443)
EnsureLazy(s, e, target_dim) ==
    IF ~s.encoder_load_attempted
    THEN LET s1 == [s EXCEPT !.encoder_load_attempted = TRUE] IN
         IF e.sentence_transformers
            /\ (target_dim = None
                \/ Some(model_dimension(SentenceTransformer)) = target_dim)
         THEN [ok |-> TRUE, store |-> [s1 EXCEPT !.model = Some(SentenceTransformer)]]
         ELSE rebuild_tfidf_runtime(s1, e)
    ELSE rebuild_tfidf_runtime(s, e)

\* a vectorizer check that takes whatever vectorizer is loaded
AnyVectorizer(s, e, target_dim) ==
    IF s.vectorizer # None THEN [ok |-> TRUE, store |-> s]
    ELSE EnsureLazy(s, e, target_dim)

\* _ensure_query_encoder, from the loaded vectorizer on (lines 415-443)
EnsureVectorizer(s, e, target_dim) ==
    IF s.vectorizer # None
    THEN LET vectorizer_dim == vectorizer_dimension(s.vectorizer) IN
         IF target_dim = None \/ vectorizer_dim = None \/ vectorizer_dim = target_dim
         THEN [ok |-> TRUE, store |-> s]
         ELSE EnsureLazy([s EXCEPT !.vectorizer = None], e, target_dim)
    ELSE EnsureLazy(s, e, target_dim)

\* _ensure_query_encoder
ensure_query_encoder(s, e) ==
    LET target_dim == embedding_dimension(s.embeddings) IN
    IF s.model # None
    THEN IF target_dim = None \/ Some(model_dimension(Val(s.model))) = target_dim
         THEN [ok |-> TRUE, store |-> s]
         ELSE EnsureVectorizer([s EXCEPT !.model = None], e, target_dim)
    ELSE EnsureVectorizer(s, e, target_dim)

\* ------------------------------------------------------------------------
\* VectorStore.retrieve
\* ------------------------------------------------------------------------
\* boost 1: the query names the passage's regulation
RegulationBoostOf(query_lower, doc) ==
    IF ContainsDora(query_lower) /\ doc.regulation = "DORA" THEN RegulationBoost
    ELSE IF ContainsGdpr(query_lower) /\ doc.regulation = "GDPR" THEN RegulationBoost
    ELSE IF ContainsAiAct(query_lower) /\ doc.regulation = "EU AI Act"
         THEN RegulationBoost
         ELSE 0

\* re.match(r"Article\s+(\d+)", label): the digits, or None
ArticleMatch(label) == IF label.kind = "Article" THEN Some(label.num) ELSE None

\* a boost loop without the exact-article boost
NoArticleBoost(query_lower, doc) == 0

\* boost 2: the query names the passage's article number
ArticleBoostOf(query_lower, doc) ==
    LET article_nums_in_query == Range(FindArticleNumbers(query_lower))
        art_match == ArticleMatch(doc.article)
    IN  IF art_match # None /\ Val(art_match) \in article_nums_in_query
        THEN ArticleBoost ELSE 0

\* boost 3: content words shared with the chapter title
ChapterBoostOf(query_lower, doc) ==
    ChapterBoost * Cardinality(ContentWords(query_lower)
                     \cap ContentWords(MetaGet(doc.metadata, "chapter_title", <<>>)))

\* boost 4: content words shared with the section title
SectionBoostOf(query_lower, doc) ==
    SectionBoost * Cardinality(ContentWords(query_lower)
                     \cap ContentWords(MetaGet(doc.metadata, "section_title", <<>>)))

Boosts(query_lower, doc) ==
    RegulationBoostOf(query_lower, doc) + ArticleBoostOf(query_lower, doc)
    + ChapterBoostOf(query_lower, doc) + SectionBoostOf(query_lower, doc)

\* the encoder retrieve uses once _ensure_query_encoder has succeeded
QueryEncoder(s) ==
    IF s.model # None THEN Some(ModelEncoder)
    ELSE IF s.vectorizer # None THEN Some(VectorizerEncoder(Val(s.vectorizer)))
    ELSE None

QueryEncoderDim(s) ==
    IF s.model # None THEN Val(s.model).dim ELSE Val(s.vectorizer).dim

\* model.encode / vectorizer.transform give a query vector; the transform of
\* a vectorizer that was never fitted raises
EncodesQuery(s) == s.model # None \/ Val(s.vectorizer) # Unfitted

\* semantic_scores, in hundredths, one per row of the matrix
SemanticScores(s, e, query) ==
    With(<<Val(s.embeddings), QHash(query), Val(QueryEncoder(s))>>,
         LAMBDA x : [r \in DOMAIN x[1].rows |-> Cosine(e.seed, x[3], x[1], x[2], r)])

\* bm25_norm, in hundredths (rounded down), one per passage of the BM25 corpus
Bm25Norm(s, query) ==
    With([i \in DOMAIN Val(s.bm25).corpus |-> Bm25Raw(Val(s.bm25), query, i)],
         LAMBDA bm25_raw :
            With(MaxSeq(bm25_raw),
                 LAMBDA bm25_max :
                    [i \in DOMAIN bm25_raw |->
                        IF bm25_max > 0 THEN (bm25_raw[i] * 100) \div bm25_max
                        ELSE bm25_raw[i] * 100]))

\* do two numpy vectors of these lengths broadcast?
Broadcasts(n, m) == n = m \/ n = 1 \/ m = 1

BroadcastLen(n, m) == IF n = 1 THEN m ELSE n

\* scores before the boosts: 0.6 * semantic + 0.4 * bm25_norm, or semantic alone
BaseScores(s, e, query) ==
    With(SemanticScores(s, e, query),
         LAMBDA sem :
            IF s.bm25 # None
            THEN With(Bm25Norm(s, query),
                      LAMBDA bm :
                         [i \in 1..BroadcastLen(Len(sem), Len(bm)) |->
                            60 * sem[IF Len(sem) = 1 THEN 1 ELSE i]
                            + 40 * bm[IF Len(bm) = 1 THEN 1 ELSE i]])
            ELSE [i \in DOMAIN sem |-> 100 * sem[i]])

\* scores after the boost loop over self.documents
FinalScores(s, e, query) ==
    With(<<BaseScores(s, e, query), s.documents>>,
         LAMBDA x :
            [i \in DOMAIN x[1] |->
                IF i <= Len(x[2]) THEN x[1][i] + Boosts(query, x[2][i]) ELSE x[1][i]])

\* np.argsort(scores)[::-1]: descending, equal scores by descending index
RECURSIVE ArgsortDescending(_, _)
ArgsortDescending(scores, remaining) ==
    IF remaining = {} THEN <<>>
    ELSE With(CHOOSE i \in remaining : \A j \in remaining :
                 scores[j] < scores[i] \/ (scores[j] = scores[i] /\ j <= i),
              LAMBDA best : <<best>> \o ArgsortDescending(scores, remaining \ {best}))

\* a tiering without the medium tier
TwoTiers(score) == IF score >= HighThreshold THEN "high" ELSE "low"

\* the confidence tier of a score
Tier(score) ==
    IF score >= HighThreshold THEN "high"
    ELSE IF score >= MediumThreshold THEN "medium"
    ELSE "low"

EurlexUrl(doc) ==
    <<IF doc.regulation \in Regulations THEN doc.regulation ELSE "", doc.article>>

\* has the result loop collected enough?  (checked after each append)
EnoughResults(results, top_k) == Len(results) >= top_k

\* a result loop without the regulation test
FilterIgnored(regulation_filter, doc) == FALSE

\* does the regulation filter drop the passage?
FilteredOut(regulation_filter, doc) ==
    regulation_filter # "" /\ doc.regulation # regulation_filter

\* the loop over top_indices (lines 631-658), from position k on
RECURSIVE CollectResults(_, _, _, _, _, _, _, _)
CollectResults(documents, scores, top_indices, k, results, top_k, regulation_filter, min_score) ==
    IF k > Len(top_indices) THEN [raised |-> FALSE, results |-> results]
    ELSE LET idx == top_indices[k]
             score == scores[idx]
         IN  IF score < min_score THEN [raised |-> FALSE, results |-> results]
             ELSE IF idx > Len(documents) THEN [raised |-> TRUE, results |-> <<>>]
             ELSE IF FilteredOut(regulation_filter, documents[idx])
                  THEN CollectResults(documents, scores, top_indices, k + 1, results,
                                      top_k, regulation_filter, min_score)
             ELSE With(Append(results,
                              [document   |-> documents[idx],
                               score      |-> score,
                               confidence |-> Tier(score),
                               url        |-> EurlexUrl(documents[idx])]),
                       LAMBDA next :
                          IF EnoughResults(next, top_k)
                          THEN [raised |-> FALSE, results |-> next]
                          ELSE CollectResults(documents, scores, top_indices, k + 1, next,
                                              top_k, regulation_filter, min_score))

\* a guard that looks at the matrix only
NoMatrix(s) == s.embeddings = None

\* may retrieve answer at all?  (the guard of line 549)
NothingIndexed(s) == s.embeddings = None \/ s.documents = <<>>

\* retrieve, once an encoder is in place: [raised, results].  A query vector
\* of another dimension than the matrix, score vectors that do not broadcast,
\* a boost for a passage beyond the scores and a score beyond the passages
\* raise.
Score(s, e, query, top_k, regulation_filter, min_score) ==
    LET emb == Val(s.embeddings) IN
    IF QueryEncoder(s) = None THEN [raised |-> FALSE, results |-> <<>>]
    ELSE IF ~EncodesQuery(s) THEN [raised |-> TRUE, results |-> <<>>]
    ELSE IF QueryEncoderDim(s) # emb.dim THEN [raised |-> TRUE, results |-> <<>>]
    ELSE IF s.bm25 # None /\ ~Broadcasts(Len(emb.rows), Len(Val(s.bm25).corpus))
         THEN [raised |-> TRUE, results |-> <<>>]
    ELSE With(<<FinalScores(s, e, query), s.documents>>,
              LAMBDA x :
                 IF \E i \in DOMAIN x[2] : i > Len(x[1]) /\ Boosts(query, x[2][i]) # 0
                 THEN [raised |-> TRUE, results |-> <<>>]
                 ELSE With(ArgsortDescending(x[1], DOMAIN x[1]),
                           LAMBDA top_indices :
                              CollectResults(x[2], x[1], top_indices, 1, <<>>,
                                             top_k, regulation_filter, min_score)))

\* VectorStore.retrieve: [raised, results, store]
retrieve(s, e, query, top_k, regulation_filter, min_score) ==
    IF NothingIndexed(s) THEN [raised |-> FALSE, results |-> <<>>, store |-> s]
    ELSE With(ensure_query_encoder(s, e),
              LAMBDA enc :
                 IF ~enc.ok THEN [raised |-> FALSE, results |-> <<>>, store |-> enc.store]
                 ELSE With(Score(enc.store, e, query, top_k, regulation_filter, min_score),
                           LAMBDA r : [raised |-> r.raised, results |-> r.results,
                                       store |-> enc.store]))

\* ------------------------------------------------------------------------
\* Persistence
\* ------------------------------------------------------------------------
\* a file of embeddings_dir: absent, unreadable, or holding a content
Absent == [state |-> "absent", content |-> <<>>]
Corrupt == [state |-> "corrupt", content |-> <<>>]
FileOf(content) == [state |-> "ok", content |-> <<content>>]
Exists(file) == file.state # "absent"

EmptyDisk == [documents_json |-> Absent, embeddings_npy |-> Absent,
              vectorizer_pkl |-> Absent, legacy_pkl |-> FALSE]

\* VectorStore.__init__, before _load_from_disk
NewStore == [documents |-> <<>>, embeddings |-> None, model |-> None,
             vectorizer |-> None, encoder_load_attempted |-> FALSE, bm25 |-> None]

\* the record _save_to_disk writes for a passage
DocRecord(doc) ==
    [text         |-> doc.text,
     regulation   |-> doc.regulation,
     article      |-> doc.article,
     section_type |-> doc.section_type,
     metadata     |-> doc.metadata,
     chunk_id     |-> doc.chunk_id,
     breadcrumb   |-> IF doc.breadcrumb # <<>> THEN doc.breadcrumb
                      ELSE build_breadcrumb(doc.metadata, doc.regulation, doc.article)]

\* _save_to_disk: the manifest always, the matrix and the vectorizer when held
save_to_disk(s, d) ==
    [d EXCEPT
        !.documents_json = FileOf([i \in DOMAIN s.documents |-> DocRecord(s.documents[i])]),
        !.embeddings_npy = IF s.embeddings # None THEN FileOf(Val(s.embeddings)) ELSE @,
        !.vectorizer_pkl = IF s.vectorizer # None THEN FileOf(Val(s.vectorizer)) ELSE @]

\* _save_to_disk_metadata_only
save_to_disk_metadata_only(s, d) ==
    [d EXCEPT !.documents_json =
        FileOf([i \in DOMAIN s.documents |->
                  [text         |-> s.documents[i].text,
                   regulation   |-> s.documents[i].regulation,
                   article      |-> s.documents[i].article,
                   section_type |-> s.documents[i].section_type,
                   metadata     |-> s.documents[i].metadata,
                   chunk_id     |-> s.documents[i].chunk_id,
                   breadcrumb   |-> s.documents[i].breadcrumb]])]

\* does _load_from_disk migrate this record?  (lines 1041-1047)
NeedsMigration(rec) ==
    /\ "chapter_title" \notin DOMAIN rec.metadata
    /\ rec.section_type = "article"
    /\ ArticleMatch(rec.article) # None

\* the Document _load_from_disk builds from a record (lines 1037-1061)
LoadDocument(rec) ==
    LET metadata == IF NeedsMigration(rec)
                    THEN MetaUpdate(rec.metadata,
                            get_article_context(Val(ArticleMatch(rec.article)),
                                                rec.regulation))
                    ELSE rec.metadata
    IN  [text         |-> rec.text,
         regulation   |-> rec.regulation,
         article      |-> rec.article,
         section_type |-> rec.section_type,
         metadata     |-> metadata,
         chunk_id     |-> rec.chunk_id,
         breadcrumb   |-> IF rec.breadcrumb # <<>> THEN rec.breadcrumb
                          ELSE build_breadcrumb(metadata, rec.regulation, rec.article)]

\* an except clause that drops the matrix only
MatrixDropped(s) == [s EXCEPT !.embeddings = None]

\* what _load_from_disk leaves after its except clause (lines 1086-1090)
LoadFailed(s) == [s EXCEPT !.documents = <<>>, !.embeddings = None]

\* _load_from_disk: [store, disk]
load_from_disk(s, d, e) ==
    IF Exists(d.documents_json) /\ Exists(d.embeddings_npy)
    THEN IF d.documents_json.state = "corrupt"
         THEN [store |-> LoadFailed(s), disk |-> d]
         ELSE IF d.embeddings_npy.state = "corrupt"
         THEN [store |-> LoadFailed([s EXCEPT !.documents =
                            [i \in DOMAIN Val(d.documents_json.content) |->
                                LoadDocument(Val(d.documents_json.content)[i])]]),
               disk |-> d]
         ELSE LET docs_data == Val(d.documents_json.content)
                  migrated  == \E i \in DOMAIN docs_data : NeedsMigration(docs_data[i])
              IN  With([s EXCEPT
                          !.documents  = [i \in DOMAIN docs_data |->
                                             LoadDocument(docs_data[i])],
                          !.embeddings = Some(Val(d.embeddings_npy.content)),
                          !.vectorizer = IF d.vectorizer_pkl.state = "ok"
                                         THEN Some(Val(d.vectorizer_pkl.content))
                                         ELSE IF d.vectorizer_pkl.state = "corrupt"
                                              THEN None ELSE @],
                       LAMBDA s1 :
                          With(<<IF migrated THEN save_to_disk_metadata_only(s1, d) ELSE d,
                                 init_bm25(s1, e)>>,
                               LAMBDA x :
                                  IF x[2].raised
                                  THEN [store |-> LoadFailed(s1), disk |-> x[1]]
                                  ELSE [store |-> x[2].store, disk |-> x[1]]))
    ELSE [store |-> s, disk |-> d]

\* _generate_embeddings: [raised, store]
generate_embeddings(s, e) ==
    IF s.documents = <<>> THEN [raised |-> FALSE, store |-> s]
    ELSE IF ~e.sentence_transformers
         THEN IF e.sklearn
              THEN [raised |-> FALSE, store |-> generate_tfidf_embeddings(s)]
              ELSE [raised |-> TRUE, store |-> s]
         ELSE [raised |-> FALSE,
               store |-> [s EXCEPT !.model = Some(SentenceTransformer),
                                   !.embeddings = Some([enc  |-> ModelEncoder,
                                                        dim  |-> SemDim,
                                                        rows |-> TextIds(s.documents)])]]

\* the loop of parse_and_index_pdfs over the three sources: pdfs[r] is
\* "missing" (no PDF found), "unreadable" (pdftotext fails) or "ok"
ParseSources(pdfs) ==
    Flatten([i \in DOMAIN SourceOrder |->
        IF pdfs[SourceOrder[i]] = "missing" THEN <<>>
        ELSE parse_pdf(pdfs[SourceOrder[i]], SourceOrder[i])])

\* parse_and_index_pdfs from line 528 on, with the passages of the sources
\* collected: [raised, store, disk]
IndexDocuments(s, d, e, documents) ==
    With([s EXCEPT !.documents = documents],
         LAMBDA s1 :
            With(generate_embeddings(s1, e),
                 LAMBDA g :
                    IF g.raised THEN [raised |-> TRUE, store |-> g.store, disk |-> d]
                    ELSE With(init_bm25(g.store, e),
                              LAMBDA b :
                                 IF b.raised
                                 THEN [raised |-> TRUE, store |-> g.store, disk |-> d]
                                 ELSE [raised |-> FALSE, store |-> b.store,
                                       disk |-> save_to_disk(b.store, d)])))

\* parse_and_index_pdfs: [raised, store, disk]
parse_and_index_pdfs(s, d, e, pdfs) == IndexDocuments(s, d, e, ParseSources(pdfs))

\* ------------------------------------------------------------------------
\* RAGEngine: query planning
\* ------------------------------------------------------------------------
\* the tokens of the vocabulary that properly extend another one
ProperPrefixes == {<<"6", "60">>, <<"obligation", "obligations">>,
                   <<"requirement", "requirements">>, <<"difference", "differences">>,
                   <<"compare", "compared">>, <<"concept", "concepts">>}

StartsWith(token, prefix) == token = prefix \/ <<prefix, token>> \in ProperPrefixes

\* "sub in text" of the code: sub is a run of tokens of text, the last of
\* which may go on ("article 6" is in "article 60")
HasPhrase(text, sub) ==
    \E i \in 1..(Len(text) - Len(sub) + 1) :
        /\ \A k \in 1..(Len(sub) - 1) : text[i + k - 1] = sub[k]
        /\ StartsWith(text[i + Len(sub) - 1], sub[Len(sub)])

\* any(k in text for k in words), for single words
HasAny(text, words) == \E w \in words : HasPhrase(text, <<w>>)

\* _infer_intent
infer_intent(question_lower) ==
    IF (\E i \in DOMAIN question_lower :
            i < Len(question_lower) /\ question_lower[i] = "article"
            /\ question_lower[i + 1] \in DigitTokens)
       \/ HasPhrase(question_lower, <<"what", "does", "article">>)
    THEN "article_clarification"
    ELSE IF HasAny(question_lower, {"obligation", "must", "required", "requirement",
                                    "shall"})
    THEN "obligation_finder"
    ELSE IF HasAny(question_lower, {"difference", "compare", "vs", "interaction"})
    THEN "cross_regulation_compare"
    ELSE IF HasPhrase(question_lower, <<"what", "is">>)
            \/ HasAny(question_lower, {"meaning", "define", "concept", "explain"})
    THEN "concept_explainer"
    ELSE "general"

\* _infer_regulation_focus
infer_regulation_focus(question_lower) ==
    IF ContainsGdpr(question_lower) THEN "GDPR"
    ELSE IF ContainsDora(question_lower) THEN "DORA"
    ELSE IF ContainsAiAct(question_lower) THEN "EU AI Act"
    ELSE "all"

SUPPORTED_INTENTS == {"article_clarification", "obligation_finder", "concept_explainer",
                      "cross_regulation_compare", "general"}

\* the expansion rules of _expand_query: triggers (phrases) and expansion
ExpansionRules ==
    << [triggers  |-> {<<"dpia">>, <<"data", "protection", "impact">>,
                       <<"article", "35">>, <<"art", "35">>},
        expansion |-> <<"article", "35", "gdpr", "data", "protection", "impact",
                        "assessment", "high", "risk", "processing">>],
       [triggers  |-> {<<"fria">>, <<"fundamental", "rights", "impact">>,
                       <<"article", "27">>, <<"art", "27">>},
        expansion |-> <<"article", "27", "fundamental", "rights", "impact",
                        "assessment", "deployer", "high", "risk", "ai">>],
       [triggers  |-> {<<"automated", "decision">>, <<"article", "22">>, <<"profiling">>},
        expansion |-> <<"article", "22", "gdpr", "automated", "decision", "making",
                        "profiling", "legal", "effects">>],
       [triggers  |-> {<<"third", "party", "ict">>, <<"ict", "risk">>,
                       <<"incident", "reporting">>},
        expansion |-> <<"dora", "article", "5", "article", "19", "article", "28",
                        "ict", "risk", "third", "party", "incident", "reporting">>],
       [triggers  |-> {<<"high", "risk">>, <<"annex", "iii">>, <<"article", "6">>},
        expansion |-> <<"eu", "ai", "act", "article", "6", "annex", "iii",
                        "classification", "high", "risk", "ai", "systems">>] >>

IntentExpansion(intent) ==
    CASE intent = "article_clarification" ->
           <<"article", "text", "scope", "paragraph", "interpretation">>
      [] intent = "obligation_finder" ->
           <<"obligations", "requirements", "shall", "must", "compliance", "actions">>
      [] intent = "concept_explainer" -> <<"definition", "meaning", "scope", "exception">>
      [] intent = "cross_regulation_compare" ->
           <<"comparison", "overlap", "differences", "alignment">>
      [] OTHER -> <<>>

\* _expand_query: the first rule with a trigger in the query, else the
\* expansion of the intent
expand_query(query, intent) ==
    LET fires == {i \in DOMAIN ExpansionRules :
                    \E t \in ExpansionRules[i].triggers : HasPhrase(query, t)}
    IN  IF fires # {}
        THEN query \o ExpansionRules[CHOOSE i \in fires : \A j \in fires : i <= j].expansion
        ELSE query \o IntentExpansion(intent)

\* the tokens of a regulation name
RegTokens(regulation) ==
    CASE regulation = "EU AI Act" -> <<"eu", "ai", "act">>
      [] regulation = "GDPR" -> <<"gdpr">>
      [] regulation = "DORA" -> <<"dora">>

\* "Deduplicate while preserving order" (lines 206-213)
RECURSIVE Dedupe(_, _)
Dedupe(queries, seen) ==
    IF queries = <<>> THEN <<>>
    ELSE LET q == Head(queries) IN
         IF q # <<>> /\ q \notin seen
         THEN <<q>> \o Dedupe(Tail(queries), seen \cup {q})
         ELSE Dedupe(Tail(queries), seen)

\* _build_query_plan
build_query_plan(question, context) ==
    LET question_lower == question
        given_intent == MetaGet(context, "intent", "general")
        intent == IF given_intent \notin SUPPORTED_INTENTS
                  THEN infer_intent(question_lower) ELSE given_intent
        given_focus == MetaGet(context, "regulation_focus", "all")
        inferred == infer_regulation_focus(question_lower)
        regulation_focus ==
            IF given_focus \notin {"all", "EU AI Act", "GDPR", "DORA"} THEN inferred
            ELSE IF given_focus = "all"
                 THEN IF inferred # "all" /\ ~HasAny(question_lower, {"compare"})
                      THEN inferred ELSE "all"
                 ELSE given_focus
        article_numbers == FindArticleNumbers(question_lower)
        article_queries ==
            [i \in DOMAIN article_numbers |->
                IF regulation_focus = "all"
                THEN <<"article", article_numbers[i], "eu", "ai", "act", "gdpr", "dora">>
                ELSE <<"article", article_numbers[i]>> \o RegTokens(regulation_focus)]
        intent_queries ==
            CASE intent = "obligation_finder" ->
                   << question \o <<"obligations", "requirements", "shall", "must">> >>
              [] intent = "concept_explainer" ->
                   << question \o <<"definition", "scope", "conditions">> >>
              [] intent = "cross_regulation_compare" ->
                   << question \o <<"eu", "ai", "act", "gdpr", "dora", "differences">> >>
              [] OTHER -> <<>>
        search_queries == <<expand_query(question, intent)>> \o article_queries
                          \o intent_queries
        deduped == Dedupe(search_queries, {})
    IN  [intent           |-> intent,
         regulation_focus |-> regulation_focus,
         article_numbers  |-> article_numbers,
         search_queries   |-> SubSeq(deduped, 1, Min2(MaxQueries, Len(deduped)))]

\* ------------------------------------------------------------------------
\* RAGEngine: retrieval with fallbacks
\* ------------------------------------------------------------------------
\* the key of _merge_passages: f"{regulation}-{article}"
MergeKey(p) == <<p.document.regulation, p.document.article>>

\* a merge that never replaces an entry
RECURSIVE MergeKeepsFirst(_, _)
MergeKeepsFirst(target, passages) ==
    IF passages = <<>> THEN target
    ELSE MergeKeepsFirst(IF \E i \in DOMAIN target :
                                MergeKey(target[i]) = MergeKey(Head(passages))
                         THEN target ELSE Append(target, Head(passages)),
                         Tail(passages))

\* _merge_passages: target is the dict in insertion order
RECURSIVE merge_passages(_, _)
merge_passages(target, passages) ==
    IF passages = <<>> THEN target
    ELSE With(<<target, Head(passages)>>,
              LAMBDA x :
                 LET p == x[2]
                     at == {i \in DOMAIN x[1] : MergeKey(x[1][i]) = MergeKey(p)}
                 IN  With(IF at = {} THEN Append(x[1], p)
                          ELSE LET i == CHOOSE i \in at : TRUE IN
                               IF p.score > x[1][i].score
                               THEN [x[1] EXCEPT ![i] = p] ELSE x[1],
                          LAMBDA merged : merge_passages(merged, Tail(passages))))

\* _lookup_articles_by_number
RECURSIVE lookup_articles_by_number(_, _, _)
lookup_articles_by_number(documents, article_numbers, regulation_filter) ==
    IF documents = <<>> THEN <<>>
    ELSE LET doc == Head(documents)
             m == ArticleMatch(doc.article)
             score == IF regulation_filter # "" THEN FilteredLookupScore
                      ELSE GlobalLookupScore
         IN  (IF doc.section_type # "article" THEN <<>>
              ELSE IF regulation_filter # "" /\ doc.regulation # regulation_filter
                   THEN <<>>
              ELSE IF m = None \/ Val(m) \notin Range(article_numbers) THEN <<>>
              ELSE << [document   |-> doc,
                       score      |-> score,
                       confidence |-> IF score >= MediumThreshold THEN "medium" ELSE "low",
                       url        |-> EurlexUrl(doc)] >>)
             \o lookup_articles_by_number(Tail(documents), article_numbers,
                                          regulation_filter)

\* one loop of retrieve calls merged into the dict; an exception of retrieve
\* leaves the loop.  reached lists what the calls returned, call after call
RECURSIVE RetrievePass(_, _, _, _, _, _)
RetrievePass(s, e, queries, top_k, regulation_filter, merged) ==
    IF queries = <<>>
    THEN [raised |-> FALSE, store |-> s, merged |-> merged, reached |-> <<>>]
    ELSE With(retrieve(s, e, Head(queries), top_k, regulation_filter, PlanMinScore),
              LAMBDA r :
                 IF r.raised
                 THEN [raised |-> TRUE, store |-> r.store, merged |-> merged,
                       reached |-> <<>>]
                 ELSE With(merge_passages(merged, r.results),
                           LAMBDA next :
                              With(RetrievePass(r.store, e, Tail(queries), top_k,
                                                regulation_filter, next),
                                   LAMBDA rest :
                                      [rest EXCEPT !.reached = r.results \o @])))

\* sorted(merged.values(), key=score, reverse=True): stable, so equal scores
\* keep their insertion order
RECURSIVE SortByScore(_)
SortByScore(ps) ==
    IF ps = <<>> THEN <<>>
    ELSE With(CHOOSE i \in DOMAIN ps :
                 \A j \in DOMAIN ps :
                    ps[j].score < ps[i].score \/ (ps[j].score = ps[i].score /\ i <= j),
              LAMBDA i :
                 With([k \in 1..(Len(ps) - 1) |-> IF k < i THEN ps[k] ELSE ps[k + 1]],
                      LAMBDA rest : <<ps[i]>> \o SortByScore(rest)))

\* is the unfiltered retry of lines 236-244 taken?
NeedsGlobalRetry(regulation_filter, merged) ==
    regulation_filter # "" /\ Len(merged) < WeakMerge

\* a retrieval without the direct lookup
NoDirectLookup(merged, article_numbers) == FALSE

\* is the direct lookup of lines 247-252 taken?
NeedsDirectLookup(merged, article_numbers) ==
    Len(merged) < WeakMerge /\ article_numbers # <<>>

\* the slice ranked[:6]
TopRanked(ranked) == SubSeq(ranked, 1, Min2(MaxRanked, Len(ranked)))

\* the retrieval after the filtered pass: the unfiltered retry, the direct
\* lookup, the ranking
AfterFirstPass(e, plan, regulation_filter, first) ==
    LET retry == NeedsGlobalRetry(regulation_filter, first.merged) IN
    With(IF first.raised \/ ~retry THEN first
         ELSE RetrievePass(first.store, e,
                           SubSeq(plan.search_queries, 1,
                                  Min2(FallbackQueries, Len(plan.search_queries))),
                           FallbackTopK, "", first.merged),
         LAMBDA second :
            LET direct == ~second.raised
                          /\ NeedsDirectLookup(second.merged, plan.article_numbers)
            IN  With(IF direct
                     THEN lookup_articles_by_number(second.store.documents,
                                                    plan.article_numbers,
                                                    regulation_filter)
                     ELSE <<>>,
                     LAMBDA looked_up :
                        With(merge_passages(second.merged, looked_up),
                             LAMBDA merged :
                                [raised    |-> second.raised,
                                 store     |-> second.store,
                                 passages  |-> IF second.raised THEN <<>>
                                               ELSE TopRanked(SortByScore(merged)),
                                 filtered  |-> first.merged,
                                 filtered_reached |-> first.reached,
                                 retried   |-> ~first.raised /\ retry,
                                 searched  |-> second.merged,
                                 direct    |-> direct,
                                 looked_up |-> looked_up,
                                 reached   |-> (IF ~first.raised /\ retry
                                                THEN first.reached ELSE <<>>)
                                               \o second.reached \o looked_up,
                                 merged    |-> merged])))

\* _retrieve_with_fallbacks
retrieve_with_fallbacks(s, e, plan) ==
    LET regulation_filter == IF plan.regulation_focus = "all" THEN ""
                             ELSE plan.regulation_focus
    IN  With(RetrievePass(s, e, plan.search_queries, PlanTopK, regulation_filter, <<>>),
             LAMBDA first : AfterFirstPass(e, plan, regulation_filter, first))

\* an assessment that takes one passage of the high tier for high
AssessByBest(passages) ==
    IF \E i \in DOMAIN passages : passages[i].score >= HighThreshold THEN "high"
    ELSE IF \E i \in DOMAIN passages : passages[i].score >= MediumThreshold THEN "medium"
    ELSE "low"

\* _assess_confidence
assess_confidence(passages) ==
    LET high_score_count == Cardinality({i \in DOMAIN passages :
                                            passages[i].score >= HighThreshold})
        medium_score_count == Cardinality({i \in DOMAIN passages :
                                              passages[i].score >= MediumThreshold})
    IN  IF passages = <<>> THEN "low"
        ELSE IF high_score_count >= 2 THEN "high"
        ELSE IF medium_score_count >= 1 \/ high_score_count >= 1 THEN "medium"
        ELSE "low"

\* ------------------------------------------------------------------------
\* RAGEngine: generation and citation check
\* ------------------------------------------------------------------------
\* re.search(r"(\d+)", label): the first run of digits of a label of any kind
FirstNumber(label) == IF label.num # "" THEN Some(label.num) ELSE None

\* reg_aliases.get(raw), then the first alias contained in raw
CitedRegulation(cited_reg_raw) ==
    IF ContainsAiAct(cited_reg_raw) THEN Some("EU AI Act")
    ELSE IF ContainsGdpr(cited_reg_raw) THEN Some("GDPR")
    ELSE IF ContainsDora(cited_reg_raw) THEN Some("DORA")
    ELSE None

\* the pairs (regulation, number) the retrieved passages support
RetrievedSet(retrieved_passages) ==
    {<<retrieved_passages[i].document.regulation,
       Val(FirstNumber(retrieved_passages[i].document.article))>> :
        i \in {j \in DOMAIN retrieved_passages :
                  FirstNumber(retrieved_passages[j].document.article) # None}}

\* _verify_citations: answer is the sequence of matches of citation_pattern,
\* each with its regulation text and its article number
RECURSIVE verify_citations(_, _)
verify_citations(answer, retrieved_passages) ==
    IF answer = <<>> THEN <<>>
    ELSE LET m == Head(answer)
             cited_reg == CitedRegulation(m.reg)
         IN  (IF cited_reg # None
                 /\ <<Val(cited_reg), m.art>> \notin RetrievedSet(retrieved_passages)
              THEN << [kind |-> "citation", reg |-> m.reg, art |-> m.art] >>
              ELSE <<>>)
             \o verify_citations(Tail(answer), retrieved_passages)

Providers == {"openrouter", "openai", "anthropic"}

\* a client that sends a failed request a second time
CallLlmWithRetry(llm_provider, llm) ==
    IF llm_provider \in Providers
    THEN [raised |-> llm.fails, requests |-> IF llm.fails THEN 2 ELSE 1,
          answer |-> llm.answer]
    ELSE [raised |-> TRUE, requests |-> 0, answer |-> <<>>]

\* _call_llm: one request to a known provider, which answers or fails;
\* ValueError for any other provider
call_llm(llm_provider, llm) ==
    IF llm_provider \in Providers
    THEN [raised |-> llm.fails, requests |-> 1, answer |-> llm.answer]
    ELSE [raised |-> TRUE, requests |-> 0, answer |-> <<>>]

Warning(kind) == [kind |-> kind, reg |-> <<>>, art |-> ""]

Response(answer, retrieved_passages, confidence, warnings) ==
    [answer |-> answer, retrieved_passages |-> retrieved_passages,
     confidence |-> confidence, warnings |-> warnings]

\* the threshold of lines 86-88
SuppressionThreshold(s) ==
    IF s.model = None THEN LexicalSuppression ELSE SemanticSuppression

\* a gate that looks at the confidence only
SuppressedOnLowConfidence(overall_confidence, retrieved_passages, suppression_threshold) ==
    overall_confidence = "low"

\* the gate of lines 90-92
Suppressed(overall_confidence, retrieved_passages, suppression_threshold) ==
    overall_confidence = "low"
    /\ (retrieved_passages = <<>>
        \/ \A i \in DOMAIN retrieved_passages :
              retrieved_passages[i].score < suppression_threshold)

\* an answer path that never warns about the confidence
NoConfidenceWarning(overall_confidence) == <<>>

\* the warning of lines 110-113
ConfidenceWarning(overall_confidence) ==
    IF overall_confidence = "low" THEN <<Warning("low_confidence")>> ELSE <<>>

\* answer_question once the passages are retrieved (lines 82-163)
Generate(plan, r, creds, llm) ==
    LET retrieved_passages == r.passages
        overall_confidence == assess_confidence(retrieved_passages)
        suppression_threshold == SuppressionThreshold(r.store)
        warnings == ConfidenceWarning(overall_confidence)
                    \o (IF retrieved_passages = <<>> THEN <<Warning("no_passages")>>
                        ELSE <<>>)
        g == call_llm(creds.llm_provider, llm)
        planned == [generation_calls |-> 0, requests |-> 0, planned |-> TRUE,
                    verified |-> FALSE, plan |-> plan, retrieved |-> retrieved_passages,
                    retrieval |-> [k \in {"filtered", "filtered_reached", "retried",
                                          "searched", "direct", "looked_up",
                                          "reached", "merged"} |-> r[k]]]
        did == [planned EXCEPT !.generation_calls = 1, !.requests = g.requests]
    IN  IF r.raised
        THEN [raised |-> TRUE, store |-> r.store, trace |-> planned,
              response |-> Response("raised", <<>>, "none", <<>>)]
        ELSE IF Suppressed(overall_confidence, retrieved_passages, suppression_threshold)
        THEN [raised |-> FALSE, store |-> r.store, trace |-> planned,
              response |-> Response("suppressed", <<>>, "low", <<Warning("suppressed")>>)]
        ELSE IF g.raised
        THEN [raised |-> FALSE, store |-> r.store, trace |-> did,
              response |-> Response("error", <<>>, "none", <<Warning("error")>>)]
        ELSE [raised |-> FALSE, store |-> r.store,
              trace |-> [did EXCEPT !.verified = TRUE],
              response |-> Response("generated", retrieved_passages, overall_confidence,
                                    warnings \o verify_citations(g.answer,
                                                                 retrieved_passages))]

\* answer_question: the response, the store after the retrieve calls, and
\* what the call did (calls of _call_llm, requests sent, passages retrieved,
\* whether _verify_citations ran)
answer_question(s, e, question, context, creds, llm) ==
    LET idle == [generation_calls |-> 0, requests |-> 0, planned |-> FALSE,
                 verified |-> FALSE] IN
    IF creds.llm_provider = "" \/ creds.llm_api_key = "" \/ creds.llm_model = ""
    THEN [raised |-> FALSE, store |-> s, trace |-> idle,
          response |-> Response("no_credentials", <<>>, "none",
                                <<Warning("no_credentials")>>)]
    ELSE IF s.embeddings = None
    THEN [raised |-> FALSE, store |-> s, trace |-> idle,
          response |-> Response("not_initialized", <<>>, "none",
                                <<Warning("not_initialized")>>)]
    ELSE With(build_query_plan(question, context),
              LAMBDA plan :
                 With(retrieve_with_fallbacks(s, e, plan),
                      LAMBDA r : Generate(plan, r, creds, llm)))

\* ------------------------------------------------------------------------
\* The state machine
\* ------------------------------------------------------------------------
Queries ==
    { <<"what", "does", "article", "22", "gdpr", "say">>,
      <<"article", "6">>,
      <<"article", "60", "ai", "act">>,
      <<"rights", "data", "subject">>,
      <<"pandora", "risk">>,
      <<"compare", "gdpr", "dora", "risk", "management">> }

\* the fixed queries replayed against every index of the life cycle
BenchmarkQueries ==
    { <<"what", "does", "article", "22", "gdpr", "say">>,
      <<"pandora", "risk">> }

TopKs == 0..MaxTopK
Filters == {"", "GDPR", "DORA", "HIPAA"}
MinScores == {DefaultMinScore, 4600}

\* the encoder behaviours considered
EncoderSeeds == {1, 4}

Envs == [sentence_transformers : BOOLEAN, rank_bm25 : BOOLEAN, sklearn : {TRUE},
         seed : EncoderSeeds]

Pdfs(ai_act, gdpr, dora) ==
    [r \in Regulations |-> CASE r = "EU AI Act" -> ai_act [] r = "GDPR" -> gdpr
                              [] r = "DORA" -> dora]

\* the source directories a build of the life cycle may find
PdfStates == { Pdfs("missing", "ok", "missing"), Pdfs("unreadable", "missing", "ok"),
               Pdfs("missing", "unreadable", "missing") }

\* an index written by an earlier version of the program: no chapter or
\* section metadata and no breadcrumb in the manifest
LegacyRecord(text, regulation, num) ==
    [text |-> text, regulation |-> regulation, article |-> Label("Article", num, ""),
     section_type |-> "article", metadata |-> [article_number |-> num],
     chunk_id |-> <<RegKey(regulation), "art", num>>, breadcrumb |-> <<>>]

LegacyDisk ==
    [documents_json |-> FileOf(<< LegacyRecord(Text(1, 150, {"high", "risk"}), "EU AI Act", "6"),
                                  LegacyRecord(Text(5, 150, {"automated", "decision"}), "GDPR", "22") >>),
     embeddings_npy |-> FileOf([enc |-> ModelEncoder, dim |-> SemDim, rows |-> <<1, 5>>]),
     vectorizer_pkl |-> Absent,
     legacy_pkl     |-> FALSE]

NoCall == [op |-> "none", query |-> <<>>, top_k |-> 0, regulation_filter |-> "",
           min_score |-> 0, raised |-> FALSE, results |-> <<>>]

NoRag == [op |-> "none"]

\* the worker threads that requests are handed to
Threads == {1, 2}

\* no thread is inside retrieve; the semantic model was never constructed
NoThreads == [pc         |-> [t \in Threads |-> "idle"],
              target_dim |-> [t \in Threads |-> None],
              loads      |-> 0]

\* no other process is rebuilding the index
NoBuild == [pc |-> "none", store |-> NewStore, old |-> EmptyDisk, loader |-> "idle",
            migrated |-> FALSE]

\* the result of the last request has not been handed back yet
ResponsePending == call.op = "retrieve" \/ rag.op = "answer"

Init ==
    \E e \in Envs :
      \E l \in {load_from_disk(NewStore, EmptyDisk, e)} :
        /\ env = e
        /\ store = l.store
        /\ disk = l.disk
        /\ ops = 0
        /\ call = NoCall
        /\ rag = NoRag
        /\ threads = NoThreads
        /\ build = NoBuild

\* a process starts: VectorStore() constructs a store and loads the index
Construct ==
    /\ ops < MaxOps
    /\ ops' = ops + 1
    /\ \E l \in {load_from_disk(NewStore, disk, env)} :
        /\ store' = l.store
        /\ disk' = l.disk
    /\ call' = [NoCall EXCEPT !.op = "init"]
    /\ rag' = NoRag
    /\ UNCHANGED <<env, threads, build>>

\* parse_and_index_pdfs on the store of the process
Build ==
    \E pdfs \in PdfStates :
        /\ ops < MaxOps
        /\ ops' = ops + 1
        /\ \E r \in {parse_and_index_pdfs(store, disk, env, pdfs)} :
            /\ store' = r.store
            /\ disk' = r.disk
            /\ call' = [NoCall EXCEPT !.op = "parse", !.raised = r.raised]
        /\ rag' = NoRag
        /\ UNCHANGED <<env, threads, build>>

\* VectorStore.retrieve, with its arguments drawn from the given sets
RetrieveWith(queries, top_ks, filters, min_scores) ==
    \E query \in queries, top_k \in top_ks, regulation_filter \in filters,
       min_score \in min_scores :
        /\ ~ResponsePending
        /\ \E r \in {retrieve(store, env, query, top_k, regulation_filter, min_score)} :
            /\ store' = r.store
            /\ call' = [op |-> "retrieve", query |-> query, top_k |-> top_k,
                        regulation_filter |-> regulation_filter, min_score |-> min_score,
                        raised |-> r.raised, results |-> r.results]
        /\ rag' = NoRag
        /\ UNCHANGED <<disk, env, ops, threads, build>>

\* a request of the life cycle: one of the benchmark queries
Retrieve == RetrieveWith(BenchmarkQueries, {MaxTopK}, {"", "GDPR"}, {DefaultMinScore})

\* an artifact is removed or damaged outside the program
Damage ==
    \E f \in {"documents_json", "embeddings_npy", "vectorizer_pkl"},
       how \in {Absent, Corrupt} :
        /\ Exists(disk[f])
        /\ ops < MaxOps
        /\ ops' = ops + 1
        /\ disk' = [disk EXCEPT ![f] = how]
        /\ call' = [NoCall EXCEPT !.op = "damage"]
        /\ rag' = NoRag
        /\ UNCHANGED <<store, env, threads, build>>

\* a package is installed or removed
Install ==
    \E e \in Envs :
        /\ e.seed = env.seed
        /\ e # env
        /\ ops < MaxOps
        /\ ops' = ops + 1
        /\ env' = e
        /\ call' = [NoCall EXCEPT !.op = "install"]
        /\ rag' = NoRag
        /\ UNCHANGED <<store, disk, threads, build>>

\* the caller takes the result of the last request
Return ==
    /\ ResponsePending
    /\ call' = NoCall
    /\ rag' = NoRag
    /\ UNCHANGED <<store, disk, env, ops, threads, build>>

Next == Construct \/ Build \/ Retrieve \/ Return \/ Damage \/ Install

Spec == Init /\ [][Next]_vars

\* ------------------------------------------------------------------------
\* Serving: a process that has loaded or built an index answers requests
\* ------------------------------------------------------------------------
AllSources == Pdfs("ok", "ok", "ok")

ServedPdfStates == { AllSources, Pdfs("missing", "ok", "ok") }

\* the stores a serving process can hold: the store that built the index, or
\* a store constructed later over the saved artifacts
ServedStores(e, pdfs) ==
    With(load_from_disk(NewStore, EmptyDisk, e),
         LAMBDA first :
            With(parse_and_index_pdfs(first.store, first.disk, e, pdfs),
                 LAMBDA b :
                    With(load_from_disk(NewStore, b.disk, e),
                         LAMBDA l : { [store |-> b.store, disk |-> b.disk],
                                      [store |-> l.store, disk |-> l.disk] })))

Serving(disks, envs, pdf_states) ==
    \E e \in envs :
        /\ env = e
        /\ ops = 0
        /\ call = NoCall
        /\ rag = NoRag
        /\ threads = NoThreads
        /\ build = NoBuild
        /\ \/ \E pdfs \in pdf_states :
                 \E sd \in ServedStores(e, pdfs) :
                     store = sd.store /\ disk = sd.disk
           \/ \E d \in disks :
                 \E l \in {load_from_disk(NewStore, d, e)} :
                    store = l.store /\ disk = l.disk

QueryInit == Serving({LegacyDisk}, Envs, ServedPdfStates)

\* any call of retrieve
Query == RetrieveWith(Queries, TopKs, Filters, MinScores)

QueryNext == Query \/ Return

QuerySpec == QueryInit /\ [][QueryNext]_vars

\* ------------------------------------------------------------------------
\* Question answering
\* ------------------------------------------------------------------------
Questions ==
    { <<"what", "does", "article", "22", "gdpr", "say">>,
      <<"article", "6">>,
      <<"article", "19">>,
      <<"article", "5", "article", "99", "article", "60", "article", "19">>,
      <<"rights", "data", "subject">>,
      <<"compare", "gdpr", "dora", "risk", "management">> }

Contexts ==
    { [role |-> "deployer"],
      [role |-> "deployer", regulation_focus |-> "GDPR"],
      [role |-> "deployer", regulation_focus |-> "DORA"],
      [role |-> "deployer", intent |-> "lookup", regulation_focus |-> "everything"] }

Credentials ==
    { [llm_provider |-> "openai", llm_api_key |-> "key", llm_model |-> "model"],
      [llm_provider |-> "openai", llm_api_key |-> "", llm_model |-> "model"],
      [llm_provider |-> "other", llm_api_key |-> "key", llm_model |-> "model"] }

Citation(reg, art) == [reg |-> reg, art |-> art]

\* what the provider does with the request
LlmBehaviours ==
    { [fails |-> TRUE, answer |-> <<>>],
      [fails |-> FALSE, answer |-> << Citation(<<"gdpr">>, "99") >>],
      [fails |-> FALSE, answer |-> << Citation(<<"gdpr">>, "22"),
                                      Citation(<<"the", "ai", "act">>, "6"),
                                      Citation(<<"nis">>, "5") >>] }

\* installations in which no query encoder can be had
BareEnvs == [sentence_transformers : {FALSE}, rank_bm25 : BOOLEAN, sklearn : {FALSE},
             seed : {1}]

\* a process serving an index it built or loaded, or serving the legacy
\* index where neither sentence-transformers nor scikit-learn is installed
RagInit ==
    \/ Serving({EmptyDisk, LegacyDisk}, Envs, {AllSources, Pdfs("missing", "missing", "ok")})
    \/ Serving({LegacyDisk}, BareEnvs, {})

\* RAGEngine.answer_question on the store of the process
Answer ==
    \E question \in Questions, context \in Contexts, creds \in Credentials,
       llm \in LlmBehaviours :
        /\ ~ResponsePending
        /\ \E a \in {answer_question(store, env, question, context, creds, llm)} :
            /\ store' = a.store
            /\ rag' = [op |-> "answer", question |-> question, context |-> context,
                       creds |-> creds, llm |-> llm, raised |-> a.raised,
                       response |-> a.response, trace |-> a.trace]
        /\ call' = NoCall
        /\ UNCHANGED <<disk, env, ops, threads, build>>

RagNext == Answer \/ Return

RagSpec == RagInit /\ [][RagNext]_vars

\* ------------------------------------------------------------------------
\* Loading: a process starts over artifacts that a build has written and
\* that may have been removed or damaged since
\* ------------------------------------------------------------------------
\* the artifacts a build leaves in an empty directory
BuiltDisk(e, pdfs) ==
    parse_and_index_pdfs(load_from_disk(NewStore, EmptyDisk, e).store, EmptyDisk, e, pdfs).disk

FileStates(file) == {file, Absent, Corrupt}

LoadInit ==
    \E e \in Envs, e0 \in Envs, pdfs \in PdfStates :
        \E base \in {BuiltDisk(e0, pdfs), LegacyDisk} :
            \E m \in FileStates(base.documents_json), x \in FileStates(base.embeddings_npy),
               v \in FileStates(base.vectorizer_pkl), legacy \in BOOLEAN :
                \E l \in {load_from_disk(NewStore,
                                          [documents_json |-> m, embeddings_npy |-> x,
                                           vectorizer_pkl |-> v, legacy_pkl |-> legacy],
                                          e)} :
                    /\ e0.seed = e.seed
                    /\ env = e
                    /\ store = l.store
                    /\ disk = l.disk
                    /\ ops = 0
                    /\ call = [NoCall EXCEPT !.op = "init"]
                    /\ rag = NoRag
                    /\ threads = NoThreads
                    /\ build = NoBuild

LoadNext == Construct \/ Retrieve \/ Return

LoadSpec == LoadInit /\ [][LoadNext]_vars

\* ------------------------------------------------------------------------
\* Encoder selection: a process loads an index that one build, or one build
\* over another under a different installation, has left, and serves
\* requests while packages are installed
\* ------------------------------------------------------------------------
EncoderEnvs == [sentence_transformers : BOOLEAN, rank_bm25 : {TRUE}, sklearn : BOOLEAN,
                seed : {1}]

\* the source directories that give a build at least one passage
IndexedPdfStates == {pdfs \in PdfStates : ParseSources(pdfs) # <<>>}

\* the artifacts after a build under e0 and a second build, by the same
\* process, under e1
RebuiltDisk(e0, e1, pdfs) ==
    With(load_from_disk(NewStore, EmptyDisk, e0),
         LAMBDA l :
            With(parse_and_index_pdfs(l.store, l.disk, e0, pdfs),
                 LAMBDA b : parse_and_index_pdfs(b.store, b.disk, e1, pdfs).disk))

EncoderInit ==
    \E e \in EncoderEnvs, e0 \in Envs, e1 \in Envs, pdfs \in IndexedPdfStates :
        /\ e0.seed = e.seed /\ e1.seed = e.seed
        /\ e0.rank_bm25 /\ e1.rank_bm25
        /\ \E base \in {RebuiltDisk(e0, e1, pdfs), LegacyDisk} :
              \E v \in {base.vectorizer_pkl, Absent, FileOf(Unfitted)} :
                 \E l \in {load_from_disk(NewStore, [base EXCEPT !.vectorizer_pkl = v], e)} :
                    /\ env = e
                    /\ store = l.store
                    /\ disk = l.disk
                    /\ ops = 0
                    /\ call = [NoCall EXCEPT !.op = "init"]
                    /\ rag = NoRag
                    /\ threads = NoThreads
                    /\ build = NoBuild

EncoderNext == Retrieve \/ Return \/ Install

EncoderSpec == EncoderInit /\ [][EncoderNext]_vars

\* ------------------------------------------------------------------------
\* Concurrent requests: asyncio.to_thread hands every request to a worker
\* thread, and the threads run retrieve on the one VectorStore without a
\* lock; a switch can fall between any two of the steps below
\* ------------------------------------------------------------------------
ThreadQuery == <<"pandora", "risk">>

At(t, pc) == threads.pc[t] = pc

Goto(t, pc) == threads' = [threads EXCEPT !.pc[t] = pc]

\* retrieve of thread t returns
Finish(t, raised, results) ==
    /\ Goto(t, "idle")
    /\ call' = [op |-> "retrieve", query |-> ThreadQuery, top_k |-> MaxTopK,
                regulation_filter |-> "", min_score |-> DefaultMinScore,
                raised |-> raised, results |-> results]

\* retrieve, lines 549-553, and _ensure_query_encoder, line 399
Enter(t) ==
    /\ At(t, "idle")
    /\ ops < MaxOps
    /\ ops' = ops + 1
    /\ IF NothingIndexed(store)
       THEN Finish(t, FALSE, <<>>)
       ELSE /\ threads' = [threads EXCEPT
                              !.pc[t] = "model",
                              !.target_dim[t] = embedding_dimension(store.embeddings)]
            /\ UNCHANGED call
    /\ UNCHANGED <<store, disk, env, rag, build>>

\* _ensure_query_encoder, lines 401-413
CheckModel(t) ==
    /\ At(t, "model")
    /\ IF /\ store.model # None
          /\ \/ threads.target_dim[t] = None
             \/ Some(model_dimension(Val(store.model))) = threads.target_dim[t]
       THEN Goto(t, "encode") /\ UNCHANGED store
       ELSE Goto(t, "vectorizer") /\ store' = [store EXCEPT !.model = None]
    /\ UNCHANGED <<disk, env, ops, call, rag, build>>

\* _ensure_query_encoder, lines 415-423
CheckVectorizer(t) ==
    /\ At(t, "vectorizer")
    /\ IF /\ store.vectorizer # None
          /\ \/ threads.target_dim[t] = None
             \/ vectorizer_dimension(store.vectorizer) = None
             \/ vectorizer_dimension(store.vectorizer) = threads.target_dim[t]
       THEN Goto(t, "encode") /\ UNCHANGED store
       ELSE Goto(t, "lazy") /\ store' = [store EXCEPT !.vectorizer = None]
    /\ UNCHANGED <<disk, env, ops, call, rag, build>>

\* _ensure_query_encoder, line 425: the test of the flag
CheckAttempted(t) ==
    /\ At(t, "lazy")
    /\ IF store.encoder_load_attempted THEN Goto(t, "rebuild") ELSE Goto(t, "mark")
    /\ UNCHANGED <<store, disk, env, ops, call, rag, build>>

\* _ensure_query_encoder, line 426: the flag is set
MarkAttempted(t) ==
    /\ At(t, "mark")
    /\ store' = [store EXCEPT !.encoder_load_attempted = TRUE]
    /\ Goto(t, "load")
    /\ UNCHANGED <<disk, env, ops, call, rag, build>>

\* _ensure_query_encoder, lines 427-441: the model is constructed and, if it
\* fits the dimension read at line 399, installed
LoadModel(t) ==
    /\ At(t, "load")
    /\ IF ~env.sentence_transformers
       THEN Goto(t, "rebuild") /\ UNCHANGED store
       ELSE IF \/ threads.target_dim[t] = None
               \/ Some(model_dimension(SentenceTransformer)) = threads.target_dim[t]
       THEN /\ threads' = [threads EXCEPT !.pc[t] = "encode", !.loads = @ + 1]
            /\ store' = [store EXCEPT !.model = Some(SentenceTransformer)]
       ELSE /\ threads' = [threads EXCEPT !.pc[t] = "rebuild", !.loads = @ + 1]
            /\ UNCHANGED store
    /\ UNCHANGED <<disk, env, ops, call, rag, build>>

\* _rebuild_tfidf_runtime, lines 478-486, and the import of line 968
StartRebuild(t) ==
    /\ At(t, "rebuild")
    /\ IF store.documents = <<>>
       THEN Finish(t, FALSE, <<>>) /\ UNCHANGED store
       ELSE /\ store' = [store EXCEPT !.model = None]
            /\ IF env.sklearn THEN Goto(t, "new") /\ UNCHANGED call
               ELSE Finish(t, FALSE, <<>>)
    /\ UNCHANGED <<disk, env, ops, rag, build>>

\* _generate_tfidf_embeddings, lines 973-978: a new vectorizer is assigned
NewVectorizer(t) ==
    /\ At(t, "new")
    /\ store' = [store EXCEPT !.vectorizer = Some(Unfitted)]
    /\ Goto(t, "fit")
    /\ UNCHANGED <<disk, env, ops, call, rag, build>>

\* _generate_tfidf_embeddings, line 979, right-hand side: fit_transform fits
\* the vectorizer the attribute holds now; with the attribute cleared by
\* another thread the call raises and the rebuild returns False
FitVectorizer(t) ==
    /\ At(t, "fit")
    /\ IF store.vectorizer = None
       THEN Finish(t, FALSE, <<>>) /\ UNCHANGED store
       ELSE /\ store' = [store EXCEPT !.vectorizer = Some(FittedVectorizer(store.documents))]
            /\ Goto(t, "assign")
            /\ UNCHANGED call
    /\ UNCHANGED <<disk, env, ops, rag, build>>

\* _generate_tfidf_embeddings, line 979: the matrix of the fit is assigned
AssignMatrix(t) ==
    /\ At(t, "assign")
    /\ \E v \in {FittedVectorizer(store.documents)} :
          store' = [store EXCEPT !.embeddings = Some([enc  |-> VectorizerEncoder(v),
                                                      dim  |-> v.dim,
                                                      rows |-> v.fit])]
    /\ Goto(t, "bm25")
    /\ UNCHANGED <<disk, env, ops, call, rag, build>>

\* _rebuild_tfidf_runtime, lines 488-489
InitBm25(t) ==
    /\ At(t, "bm25")
    /\ \E b \in {init_bm25(store, env)} :
          /\ store' = b.store
          /\ IF ~b.raised /\ b.store.vectorizer # None /\ b.store.embeddings # None
             THEN Goto(t, "encode") /\ UNCHANGED call
             ELSE Finish(t, FALSE, <<>>)
    /\ UNCHANGED <<disk, env, ops, rag, build>>

\* retrieve, lines 556-660
Encode(t) ==
    /\ At(t, "encode")
    /\ \E r \in {Score(store, env, ThreadQuery, MaxTopK, "", DefaultMinScore)} :
          Finish(t, r.raised, r.results)
    /\ UNCHANGED <<store, disk, env, ops, rag, build>>

ThreadNext ==
    \/ \E t \in Threads : Enter(t)
    \/ \E t \in Threads : CheckModel(t)
    \/ \E t \in Threads : CheckVectorizer(t)
    \/ \E t \in Threads : CheckAttempted(t)
    \/ \E t \in Threads : MarkAttempted(t)
    \/ \E t \in Threads : LoadModel(t)
    \/ \E t \in Threads : StartRebuild(t)
    \/ \E t \in Threads : NewVectorizer(t)
    \/ \E t \in Threads : FitVectorizer(t)
    \/ \E t \in Threads : AssignMatrix(t)
    \/ \E t \in Threads : InitBm25(t)
    \/ \E t \in Threads : Encode(t)

ThreadSpec == EncoderInit /\ [][ThreadNext]_vars

\* ------------------------------------------------------------------------
\* Rebuild beside a serving process: one process has run
\* parse_and_index_pdfs up to _save_to_disk and writes the artifacts of
\* embeddings_dir, file by file, while another process constructs a
\* VectorStore over the same directory; neither takes a lock
\* ------------------------------------------------------------------------
\* the rebuilding process moves on
BuildGoto(pc) == build' = [build EXCEPT !.pc = pc]

\* the position of the rebuilding process after the manifest, or after the
\* matrix, is written (the tests of lines 1007 and 1010)
AfterManifest == IF build.store.embeddings # None THEN "open_emb"
                 ELSE IF build.store.vectorizer # None THEN "open_vec" ELSE "done"

AfterMatrix == IF build.store.vectorizer # None THEN "open_vec" ELSE "done"

\* _save_to_disk, line 1004: open(docs_path, "w") leaves an empty file
OpenManifest ==
    /\ build.pc = "open_docs"
    /\ disk' = [disk EXCEPT !.documents_json = Corrupt]
    /\ BuildGoto("dump_docs")
    /\ UNCHANGED <<store, env, ops, call, rag, threads>>

\* _save_to_disk, line 1005: json.dump and the close of the file
DumpManifest ==
    /\ build.pc = "dump_docs"
    /\ disk' = [disk EXCEPT !.documents_json =
                    save_to_disk(build.store, disk).documents_json]
    /\ BuildGoto(AfterManifest)
    /\ UNCHANGED <<store, env, ops, call, rag, threads>>

\* _save_to_disk, line 1008: np.save opens embeddings.npy for writing
OpenMatrix ==
    /\ build.pc = "open_emb"
    /\ disk' = [disk EXCEPT !.embeddings_npy = Corrupt]
    /\ BuildGoto("save_emb")
    /\ UNCHANGED <<store, env, ops, call, rag, threads>>

\* _save_to_disk, line 1008: np.save writes the matrix
SaveMatrix ==
    /\ build.pc = "save_emb"
    /\ disk' = [disk EXCEPT !.embeddings_npy =
                    save_to_disk(build.store, disk).embeddings_npy]
    /\ BuildGoto(AfterMatrix)
    /\ UNCHANGED <<store, env, ops, call, rag, threads>>

\* _save_to_disk, line 1011: open(vectorizer.pkl, "wb")
OpenVectorizer ==
    /\ build.pc = "open_vec"
    /\ disk' = [disk EXCEPT !.vectorizer_pkl = Corrupt]
    /\ BuildGoto("dump_vec")
    /\ UNCHANGED <<store, env, ops, call, rag, threads>>

\* _save_to_disk, line 1012: pickle.dump and the close of the file
DumpVectorizer ==
    /\ build.pc = "dump_vec"
    /\ disk' = [disk EXCEPT !.vectorizer_pkl =
                    save_to_disk(build.store, disk).vectorizer_pkl]
    /\ BuildGoto("done")
    /\ UNCHANGED <<store, env, ops, call, rag, threads>>

\* the load of the serving process ends: the except clause of lines
\* 1086-1090, or the end of _load_from_disk
LoadEnds(s) ==
    /\ store' = s
    /\ build' = [build EXCEPT !.loader = "idle", !.migrated = FALSE]
    /\ call' = [NoCall EXCEPT !.op = "init"]

\* the load of the serving process goes on
LoadGoesOn(s, pc, migrated) ==
    /\ store' = s
    /\ build' = [build EXCEPT !.loader = pc, !.migrated = migrated]
    /\ call' = [NoCall EXCEPT !.op = "loading"]

\* VectorStore.__init__ and _load_from_disk, lines 1029-1061: the test that
\* manifest and matrix exist, and the read of the manifest
LoadManifest ==
    /\ build.loader = "idle"
    /\ ops < MaxOps
    /\ ops' = ops + 1
    /\ IF ~(Exists(disk.documents_json) /\ Exists(disk.embeddings_npy))
       THEN LoadEnds(NewStore)
       ELSE IF disk.documents_json.state = "corrupt"
       THEN LoadEnds(LoadFailed(NewStore))
       ELSE \E docs_data \in {Val(disk.documents_json.content)} :
               LoadGoesOn([NewStore EXCEPT !.documents =
                              [i \in DOMAIN docs_data |-> LoadDocument(docs_data[i])]],
                          "matrix",
                          \E i \in DOMAIN docs_data : NeedsMigration(docs_data[i]))
    /\ UNCHANGED <<disk, env, rag, threads>>

\* _load_from_disk, line 1063: np.load of the matrix
LoadMatrix ==
    /\ build.loader = "matrix"
    /\ IF disk.embeddings_npy.state # "ok"
       THEN LoadEnds(LoadFailed(store))
       ELSE LoadGoesOn([store EXCEPT !.embeddings = Some(Val(disk.embeddings_npy.content))],
                       "vectorizer", build.migrated)
    /\ UNCHANGED <<disk, env, ops, rag, threads>>

\* _load_from_disk, lines 1065-1074: the vectorizer, if its file exists
LoadVectorizer ==
    /\ build.loader = "vectorizer"
    /\ LoadGoesOn([store EXCEPT !.vectorizer =
                      IF disk.vectorizer_pkl.state = "ok"
                      THEN Some(Val(disk.vectorizer_pkl.content))
                      ELSE IF disk.vectorizer_pkl.state = "corrupt" THEN None ELSE @],
                  "finish", build.migrated)
    /\ UNCHANGED <<disk, env, ops, rag, threads>>

\* _load_from_disk, lines 1076-1090: the migrated manifest is saved and the
\* BM25 index built
LoadFinish ==
    /\ build.loader = "finish"
    /\ disk' = IF build.migrated THEN save_to_disk_metadata_only(store, disk) ELSE disk
    /\ \E b \in {init_bm25(store, env)} :
          IF b.raised THEN LoadEnds(LoadFailed(store)) ELSE LoadEnds(b.store)
    /\ UNCHANGED <<env, ops, rag, threads>>

\* an index built under e0 is on disk, and the build process, constructed
\* over it, has parsed and embedded the sources as they are now
RebuildInit ==
    \E e \in Envs, e0 \in Envs, pdfs0 \in IndexedPdfStates, pdfs1 \in IndexedPdfStates :
        \E d0 \in {BuiltDisk(e0, pdfs0)} :
           \E b \in {IndexDocuments(load_from_disk(NewStore, d0, e).store, d0, e,
                                     ParseSources(pdfs1))} :
              /\ e0.seed = e.seed
              /\ e0.rank_bm25 /\ e.rank_bm25
              /\ ~b.raised
              /\ env = e
              /\ store = NewStore
              /\ disk = d0
              /\ ops = 0
              /\ call = NoCall
              /\ rag = NoRag
              /\ threads = NoThreads
              /\ build = [NoBuild EXCEPT !.pc = "open_docs", !.store = b.store, !.old = d0]

RebuildNext ==
    \/ OpenManifest \/ DumpManifest \/ OpenMatrix \/ SaveMatrix
    \/ OpenVectorizer \/ DumpVectorizer
    \/ LoadManifest \/ LoadMatrix \/ LoadVectorizer \/ LoadFinish

RebuildSpec == RebuildInit /\ [][RebuildNext]_vars

\* ------------------------------------------------------------------------
\* Chunking: one run of parse_and_index_pdfs over extracted texts of any
\* structure
\* ------------------------------------------------------------------------
\* a stretch of text long enough to be kept as a passage
Stretch(id) == Text(id, 40, {"data", "processing"})

Recital(num, id) == [num |-> num, text |-> Stretch(id)]

Heading(num, suffix, ids) ==
    [num |-> num, suffix |-> suffix, paras |-> [i \in DOMAIN ids |-> Stretch(ids[i])]]

Point(point, letter, id) == [point |-> point, letter |-> letter, text |-> Stretch(id)]

Annex(num, id) == [num |-> num, text |-> Stretch(id)]

\* what the patterns of the extractors find in a text: "(N)" runs, "Article N"
\* headings, the points of Annex III, "ANNEX N" headings
FullText(recitals, articles, annex_iii, annexes) ==
    [recitals |-> recitals, articles |-> articles, annex_iii |-> annex_iii,
     annexes |-> annexes]

\* every number once; "(5)" in the preamble and again in a footnote; the
\* heading of Article 6 in the contents and over its body; Article 6 and
\* Article 6a; point 5(b) of Annex III cited twice; Annex IV twice
ExtractedTexts ==
    { FullText(<<Recital("5", 1), Recital("6", 2)>>,
               <<Heading("6", "", <<3, 4>>), Heading("60", "", <<5>>)>>,
               <<Point("5", "a", 6), Point("5", "b", 7)>>, <<Annex("IV", 8)>>),
      FullText(<<Recital("5", 1), Recital("5", 2)>>, <<>>, <<>>, <<>>),
      FullText(<<>>, <<Heading("6", "", <<3>>), Heading("6", "", <<3, 4>>)>>, <<>>, <<>>),
      FullText(<<>>, <<Heading("6", "", <<3>>), Heading("6", "a", <<4>>)>>, <<>>, <<>>),
      FullText(<<>>, <<>>, <<Point("5", "b", 6), Point("5", "b", 7)>>, <<>>),
      FullText(<<>>, <<>>, <<>>, <<Annex("IV", 8), Annex("IV", 9)>>) }

ChunkInit ==
    \E e \in Envs :
        /\ e.seed = 1
        /\ e.rank_bm25
        /\ env = e
        /\ store = NewStore
        /\ disk = EmptyDisk
        /\ ops = 0
        /\ call = NoCall
        /\ rag = NoRag
        /\ threads = NoThreads
        /\ build = NoBuild

\* parse_and_index_pdfs on a directory with the three PDFs, pdftotext giving
\* texts[r] for source r
Chunk ==
    \E texts \in [Regulations -> ExtractedTexts] :
        /\ ops = 0
        /\ ops' = 1
        /\ \E r \in {IndexDocuments(store, disk, env,
                        Flatten([i \in DOMAIN SourceOrder |->
                            ParseText(texts[SourceOrder[i]], SourceOrder[i])]))} :
            /\ store' = r.store
            /\ disk' = r.disk
            /\ call' = [NoCall EXCEPT !.op = "parse", !.raised = r.raised]
        /\ rag' = NoRag
        /\ UNCHANGED <<env, threads, build>>

ChunkNext == Chunk

ChunkSpec == ChunkInit /\ [][ChunkNext]_vars

\* ------------------------------------------------------------------------
\* Chunk ids as strings: the characters of the chunk_id that
\* _extract_articles formats (lines 757-783), for pairs of chunks of one
\* source
\* ------------------------------------------------------------------------
\* the characters of the ids, in the order of their code points
Alphabet == <<"0", "1", "2", "3", "4", "5", "6", "7", "8", "9", "_",
              "a", "b", "c", "d", "e", "f", "g", "h", "i", "j", "k", "l", "m",
              "n", "o", "p", "q", "r", "s", "t", "u", "v", "w", "x", "y", "z">>

CodePoint(c) == CHOOSE i \in DOMAIN Alphabet : Alphabet[i] = c

\* str(n) for n >= 0
RECURSIVE DigitChars(_)
DigitChars(n) ==
    IF n < 10 THEN <<Alphabet[n + 1]>>
    ELSE Append(DigitChars(n \div 10), Alphabet[(n % 10) + 1])

\* str.zfill(3)
RECURSIVE Zfill3(_)
Zfill3(chars) == IF Len(chars) >= 3 THEN chars ELSE Zfill3(<<"0">> \o chars)

\* regulation.lower().replace(" ", "_"), character by character
RegKeyChars(regulation) ==
    CASE regulation = "EU AI Act" -> <<"e", "u", "_", "a", "i", "_", "a", "c", "t">>
      [] regulation = "GDPR" -> <<"g", "d", "p", "r">>
      [] regulation = "DORA" -> <<"d", "o", "r", "a">>

\* f"{reg_key}_art_{art_padded}_para_{idx + 1}" (line 783), for the article
\* number matched as digits and an optional letter, and the position idx of
\* the paragraph in the article
ChunkIdChars(regulation, number, suffix, idx) ==
    RegKeyChars(regulation) \o <<"_", "a", "r", "t", "_">>
    \o Zfill3(DigitChars(number)) \o suffix
    \o <<"_", "p", "a", "r", "a", "_">> \o DigitChars(idx + 1)

\* a < b for Python strings
RECURSIVE StrLess(_, _)
StrLess(a, b) ==
    IF b = <<>> THEN FALSE
    ELSE IF a = <<>> THEN TRUE
    ELSE IF Head(a) # Head(b) THEN CodePoint(Head(a)) < CodePoint(Head(b))
    ELSE StrLess(Tail(a), Tail(b))

\* the article numbers and paragraph positions of the headings considered
ArticleNumbers == {6, 10, 60, 999}
Suffixes == {<<>>, <<"a">>}
ParagraphPositions == 0..(MaxParagraphs - 1)

IdInit ==
    /\ env \in {e \in Envs : e.seed = 1 /\ e.rank_bm25 /\ e.sentence_transformers}
    /\ store = NewStore
    /\ disk = EmptyDisk
    /\ ops = 0
    /\ call = NoCall
    /\ rag = NoRag
    /\ threads = NoThreads
    /\ build = NoBuild

\* two of the chunks that one run of _extract_articles over a source makes
ExtractArticles ==
    \E regulation \in {"GDPR"}, n1 \in ArticleNumbers, n2 \in ArticleNumbers,
       s1 \in Suffixes, s2 \in Suffixes,
       i1 \in ParagraphPositions, i2 \in ParagraphPositions :
        /\ ops = 0
        /\ ops' = 1
        /\ call' = [op |-> "extract_articles",
                    chunks |-> << [number |-> n1, suffix |-> s1, paragraph |-> i1 + 1,
                                   chunk_id |-> ChunkIdChars(regulation, n1, s1, i1)],
                                  [number |-> n2, suffix |-> s2, paragraph |-> i2 + 1,
                                   chunk_id |-> ChunkIdChars(regulation, n2, s2, i2)] >>]
        /\ UNCHANGED <<store, disk, env, rag, threads, build>>

IdNext == ExtractArticles

IdSpec == IdInit /\ [][IdNext]_vars

\* ------------------------------------------------------------------------
\* Properties of VectorStore.retrieve (QuerySpec)
\* ------------------------------------------------------------------------
\* the last request was a call of retrieve that returned a list
Returned == call.op = "retrieve" /\ ~call.raised

\* the scores retrieve ranks by, for the query of the last call
Scores == FinalScores(store, env, call.query)

\* the passages of the store labelled Article n
ArticlesNumbered(n) ==
    {i \in DOMAIN store.documents : ArticleMatch(store.documents[i].article) = Some(n)}

\* the position of passage i in the ranking of the last call's query
RankOf(i) ==
    Cardinality({j \in DOMAIN Scores :
                    Scores[j] > Scores[i] \/ (Scores[j] = Scores[i] /\ j > i)})

\* is passage i one of the returned entries, with its score?
ReturnedAt(i) ==
    \E k \in DOMAIN call.results :
        /\ call.results[k].document = store.documents[i]
        /\ call.results[k].score = Scores[i]

\* C1: every list retrieve returns is ordered by non-increasing score, has at
\* most top_k entries (for every top_k >= 0), and holds only scores that are
\* at least min_score.
C1_OrderedBoundedAboveMinScore ==
    Returned =>
        /\ \A k \in 1..(Len(call.results) - 1) :
              call.results[k].score >= call.results[k + 1].score
        /\ Len(call.results) <= call.top_k
        /\ \A k \in DOMAIN call.results : call.results[k].score >= call.min_score

\* C2: with a regulation filter F, every returned passage has regulation F.
C2_FilterRespected ==
    (Returned /\ call.regulation_filter # "") =>
        \A k \in DOMAIN call.results :
            call.results[k].document.regulation = call.regulation_filter

\* C2, its case: a filtered call returns passages although a passage of
\* another regulation scores higher than all of them
C2_HigherScoreFilteredOut ==
    /\ Returned
    /\ call.regulation_filter # ""
    /\ call.results # <<>>
    /\ \E i \in DOMAIN store.documents :
          /\ store.documents[i].regulation # call.regulation_filter
          /\ Scores[i] > call.results[1].score

\* the query of the last call with the article numbers taken out
Redacted == SelectSeq(call.query, LAMBDA t : t \notin DigitTokens)

\* C3, as claimed: an unfiltered call (top_k >= 1) whose query names an
\* article number N of the corpus returns a passage labelled Article N, with
\* a score strictly above its score for the query without the number.
C3_NamedArticleAlwaysReturned ==
    (Returned /\ call.regulation_filter = "" /\ call.top_k >= 1) =>
        \A n \in Range(FindArticleNumbers(call.query)) :
            ArticlesNumbered(n) # {} =>
                \E i \in ArticlesNumbered(n) :
                    /\ ReturnedAt(i)
                    /\ Scores[i] > FinalScores(store, env, Redacted)[i]

\* C3, amended: the passages labelled Article N score exactly ArticleBoost
\* above the combined score and the other boosts, and each is returned when
\* its score is at least min_score and fewer than top_k passages rank before it.
C3_NamedArticleBoosted ==
    (Returned /\ call.regulation_filter = "" /\ call.results # <<>>) =>
        \A n \in Range(FindArticleNumbers(call.query)) :
            \A i \in ArticlesNumbered(n) :
                LET doc == store.documents[i] IN
                /\ Scores[i] = BaseScores(store, env, call.query)[i]
                               + RegulationBoostOf(call.query, doc)
                               + ChapterBoostOf(call.query, doc)
                               + SectionBoostOf(call.query, doc) + 4000
                /\ (Scores[i] >= call.min_score /\ RankOf(i) < call.top_k)
                       => ReturnedAt(i)

\* C3, its case: the query names Article N, a passage labelled Article N is
\* returned, and another one stays out although the corpus holds it
C3_NamedArticleCase ==
    /\ Returned
    /\ call.regulation_filter = ""
    /\ call.top_k >= 1
    /\ \E n \in Range(FindArticleNumbers(call.query)) :
          \E i, j \in ArticlesNumbered(n) : ReturnedAt(i) /\ ~ReturnedAt(j)

\* ------------------------------------------------------------------------
\* Properties of RAGEngine.answer_question (RagSpec)
\* ------------------------------------------------------------------------
\* the last request was a question that went through retrieval
Answered == rag.op = "answer" /\ ~rag.raised /\ rag.trace.planned

\* the call was made with a provider, a key and a model
ValidCredentials ==
    rag.creds.llm_provider # "" /\ rag.creds.llm_api_key # "" /\ rag.creds.llm_model # ""

\* no retrieved passage reaches the medium threshold
LowConfidence == \A k \in DOMAIN rag.trace.retrieved : rag.trace.retrieved[k].score < 3000

\* every retrieved score is below the threshold in force: 0.05 for a store
\* without a semantic model, 0.2 with one
AllBelowSuppression ==
    \A k \in DOMAIN rag.trace.retrieved :
        rag.trace.retrieved[k].score < (IF store.model = None THEN 500 ELSE 2000)

\* C4: when the confidence is low and every retrieved score is below the
\* suppression threshold (or nothing was retrieved), generation is not called
\* and the response is the guidance with no passages; in every other case
\* with credentials and an initialised store, generation is called.
C4_SuppressionGate ==
    (Answered /\ ValidCredentials) =>
        IF LowConfidence /\ AllBelowSuppression
        THEN /\ rag.trace.generation_calls = 0
             /\ rag.response.answer = "suppressed"
             /\ rag.response.retrieved_passages = <<>>
        ELSE rag.trace.generation_calls = 1

\* C4, its case: passages were retrieved, all of them below the threshold,
\* and the answer was suppressed
C4_SuppressedWithPassages ==
    /\ Answered
    /\ rag.trace.retrieved # <<>>
    /\ rag.response.answer = "suppressed"

\* is a retrieved passage Article art of the regulation the citation names?
Supported(m) ==
    \E k \in DOMAIN rag.trace.retrieved :
        LET doc == rag.trace.retrieved[k].document IN
        /\ Some(doc.regulation) = CitedRegulation(m.reg)
        /\ ArticleMatch(doc.article) = Some(m.art)

\* C5: the citation warnings of a generated answer are, in order, the
\* citations of a known regulation R and an article N for which no retrieved
\* passage is Article N of R: one warning per such citation and no other.
C5_WarnsIffNoSuchArticle ==
    (Answered /\ rag.response.answer = "generated") =>
        SelectSeq(rag.response.warnings, LAMBDA w : w.kind = "citation")
        = [k \in DOMAIN SelectSeq(rag.llm.answer,
                                  LAMBDA m : CitedRegulation(m.reg) # None /\ ~Supported(m)) |->
             LET m == SelectSeq(rag.llm.answer,
                                LAMBDA c : CitedRegulation(c.reg) # None /\ ~Supported(c))[k]
             IN  [kind |-> "citation", reg |-> m.reg, art |-> m.art]]

\* the passages of the store that are articles numbered n within the focus
ArticlesInFocus(n) ==
    {i \in DOMAIN store.documents :
        /\ store.documents[i].section_type = "article"
        /\ ArticleMatch(store.documents[i].article) = Some(n)
        /\ rag.trace.plan.regulation_focus \in {"all", store.documents[i].regulation}}

\* does the returned list hold a passage labelled Article n?
ReturnsArticle(n) ==
    \E k \in DOMAIN rag.trace.retrieved :
        ArticleMatch(rag.trace.retrieved[k].document.article) = Some(n)

\* C6, as claimed: for every article number N of the plan that the corpus
\* holds within the regulation focus, the list returned by
\* _retrieve_with_fallbacks contains a passage labelled Article N.
C6_NamedArticleAlwaysSurfaced ==
    Answered =>
        \A n \in Range(rag.trace.plan.article_numbers) :
            ArticlesInFocus(n) # {} => ReturnsArticle(n)

\* C6, amended: the same, when the retrieval passes merged fewer than 3
\* passages and the direct lookup leaves at most 6 to return.
C6_NamedArticleSurfacedWhenThin ==
    (Answered /\ Len(rag.trace.retrieval.searched) < 3
              /\ Len(rag.trace.retrieval.merged) <= 6) =>
        \A n \in Range(rag.trace.plan.article_numbers) :
            ArticlesInFocus(n) # {} => ReturnsArticle(n)

\* C6, its case: the direct lookup brings an Article N that the retrieval
\* passes had not found
C6_SurfacedByLookupOnly ==
    /\ Answered
    /\ rag.trace.retrieval.direct
    /\ \E n \in Range(rag.trace.plan.article_numbers) :
          /\ ReturnsArticle(n)
          /\ \A k \in DOMAIN rag.trace.retrieval.searched :
                ArticleMatch(rag.trace.retrieval.searched[k].document.article) # Some(n)

\* is the tier of a passage the one its score determines?
TierByScore(p) ==
    \/ p.score >= 5000 /\ p.confidence = "high"
    \/ p.score >= 3000 /\ p.score < 5000 /\ p.confidence = "medium"
    \/ p.score < 3000 /\ p.confidence = "low"

\* C8: every passage created by retrieve or by _lookup_articles_by_number has
\* the tier of its score: high from 0.5, medium from 0.3 up to 0.5, low below.
C8_TierDeterminedByScore ==
    Answered =>
        /\ \A k \in DOMAIN rag.trace.retrieval.searched :
              TierByScore(rag.trace.retrieval.searched[k])
        /\ \A k \in DOMAIN rag.trace.retrieval.looked_up :
              TierByScore(rag.trace.retrieval.looked_up[k])

\* C8, its case: one request with a passage from the direct lookup and a
\* passage from retrieve in the low tier
C8_LookupAndLowTier ==
    /\ Answered
    /\ rag.trace.retrieval.looked_up # <<>>
    /\ \E k \in DOMAIN rag.trace.retrieval.searched :
          rag.trace.retrieval.searched[k].confidence = "low"

\* ------------------------------------------------------------------------
\* Properties of the index life cycle (Spec, LoadSpec)
\* ------------------------------------------------------------------------
\* no passage of the store passes the filter of the last call
NoPassageMatches ==
    \/ store.documents = <<>>
    \/ /\ call.regulation_filter # ""
       /\ \A i \in DOMAIN store.documents :
             store.documents[i].regulation # call.regulation_filter

\* C7: when the passage list is empty, or no passage matches the filter,
\* retrieve returns the empty list and does not raise.
C7_EmptyWhenNothingMatches ==
    (call.op = "retrieve" /\ NoPassageMatches) => (~call.raised /\ call.results = <<>>)

\* C7, its case: a build in which every source was skipped has emptied the
\* passage list of a store that still holds a matrix, and retrieve is called
C7_EmptyListWithMatrix ==
    /\ call.op = "retrieve"
    /\ store.documents = <<>>
    /\ store.embeddings # None
    /\ call.results = <<>>

\* C9: after _load_from_disk the store holds the passages of the manifest
\* and the matrix of the matrix file, or no passage and no matrix; a store
\* with neither serves nothing.
C9_BothOrNeither ==
    /\ call.op = "init" =>
          \/ store.documents = <<>> /\ store.embeddings = None
          \/ /\ disk.documents_json.state = "ok"
             /\ disk.embeddings_npy.state = "ok"
             /\ store.embeddings = Some(Val(disk.embeddings_npy.content))
             /\ LET docs_data == Val(disk.documents_json.content) IN
                /\ Len(store.documents) = Len(docs_data)
                /\ \A i \in DOMAIN docs_data :
                      \A f \in {"text", "regulation", "article", "section_type", "chunk_id"} :
                          store.documents[i][f] = docs_data[i][f]
    /\ (call.op = "retrieve" /\ store.documents = <<>> /\ store.embeddings = None) =>
          (~call.raised /\ call.results = <<>>)

\* C9, its case: the manifest is readable, the matrix is not, and the load
\* has left neither
C9_PartialIndexDropped ==
    /\ call.op = "init"
    /\ disk.documents_json.state = "ok"
    /\ Val(disk.documents_json.content) # <<>>
    /\ disk.embeddings_npy.state = "corrupt"
    /\ store.documents = <<>>
    /\ store.embeddings = None

\* the store a new process loads from the artifacts on disk
Reloaded == load_from_disk(NewStore, disk, env).store

\* C10: after a build has saved its index, a fresh store that loads it holds
\* the same passages, field by field, and returns the same ranked results
\* with the same scores for every benchmark query as the store that saved it.
C10_SaveLoadRoundTrip ==
    (call.op = "parse" /\ ~call.raised) =>
        /\ Reloaded.documents = store.documents
        /\ \A query \in BenchmarkQueries, regulation_filter \in {"", "GDPR"} :
              LET saved == retrieve(store, env, query, MaxTopK, regulation_filter,
                                    DefaultMinScore)
                  fresh == retrieve(Reloaded, env, query, MaxTopK, regulation_filter,
                                    DefaultMinScore)
              IN  fresh.raised = saved.raised /\ fresh.results = saved.results

\* ------------------------------------------------------------------------
\* Properties of the encoder selection (EncoderSpec)
\* ------------------------------------------------------------------------
\* the last request was a call of retrieve on a store that holds an index
ServedFromIndex == call.op = "retrieve" /\ ~NothingIndexed(store)

\* C11: after every call of retrieve on a store with an index, the encoder
\* that gave the query vector has as many dimensions as the matrix has
\* columns; a vectorizer of unknown dimension gives no vector, so the call
\* raises and no score is computed.
C11_EncoderDimensionMatches ==
    /\ (ServedFromIndex /\ QueryEncoder(store) # None /\ EncodesQuery(store)) =>
          QueryEncoderDim(store) = Val(store.embeddings).dim
    /\ (ServedFromIndex /\ QueryEncoder(store) # None /\ ~EncodesQuery(store)) =>
          (call.raised /\ call.results = <<>>)

\* C11, its case: the vectorizer file holds a fitted vectorizer of another
\* dimension than the matrix file, and retrieve has returned passages
C11_StaleVectorizerNotUsed ==
    /\ ServedFromIndex
    /\ disk.vectorizer_pkl.state = "ok"
    /\ Val(disk.vectorizer_pkl.content) # Unfitted
    /\ Val(disk.vectorizer_pkl.content).dim # Val(disk.embeddings_npy.content).dim
    /\ ~call.raised
    /\ call.results # <<>>

\* the four options of the fallback chain, as a store with an index and the
\* installation stand before a call; the lazy load is an option until the
\* store has attempted it once
LoadedSemanticFits(s) ==
    s.model # None /\ model_dimension(Val(s.model)) = Val(s.embeddings).dim

LoadedLexicalFits(s) ==
    /\ s.vectorizer # None
    /\ (Val(s.vectorizer) = Unfitted \/ Val(s.vectorizer).dim = Val(s.embeddings).dim)

LazySemanticFits(s, e) ==
    /\ ~s.encoder_load_attempted
    /\ e.sentence_transformers
    /\ SemDim = Val(s.embeddings).dim

LexicalRebuildWorks(s, e) == e.sklearn

\* retrieval reported that no encoder is available
Unavailable(s, c) == QueryEncoder(s) = None /\ ~c.raised /\ c.results = <<>>

RowsMatchInMemory ==
    store.embeddings # None => Len(Val(store.embeddings).rows) = Len(store.documents)

\* the matrix file has one row per record of the manifest
RowsMatchOnDisk ==
    (disk.documents_json.state = "ok" /\ disk.embeddings_npy.state = "ok") =>
        Len(Val(disk.embeddings_npy.content).rows) = Len(Val(disk.documents_json.content))

\* C13: in every state of the life cycle (loads, builds with any sources
\* skipped, runtime rebuilds) a matrix held by the store has as many rows as
\* the store has passages, and so have the matrix file and the manifest.
C13_RowCountEqualsPassageCount == RowsMatchInMemory /\ RowsMatchOnDisk

\* the passages of the sources that were found and extracted, in source order
RemainingPassages(pdfs) ==
    Flatten([i \in DOMAIN SourceOrder |->
        IF pdfs[SourceOrder[i]] = "ok" THEN parse_pdf("ok", SourceOrder[i]) ELSE <<>>])

\* the step is the call parse_and_index_pdfs on the directory pdfs
BuildStep(pdfs) ==
    /\ call'.op = "parse"
    /\ \E r \in {parse_and_index_pdfs(store, disk, env, pdfs)} :
          store' = r.store /\ disk' = r.disk /\ call'.raised = r.raised

\* C15: whichever sources are missing or fail to extract,
\* parse_and_index_pdfs does not raise and leaves exactly the passages of the
\* other sources; with all three skipped it leaves the empty corpus.
C15_SkipsFailedSources ==
    [][\A pdfs \in PdfStates :
          BuildStep(pdfs) =>
              (~call'.raised /\ store'.documents = RemainingPassages(pdfs))]_vars

\* ------------------------------------------------------------------------
\* Properties of the chunking (ChunkSpec)
\* ------------------------------------------------------------------------
\* C14: after a run of parse_and_index_pdfs no two passages of the store
\* have the same chunk_id, whatever the extracted texts.
C14_ChunkIdsUnique ==
    call.op = "parse" =>
        \A i, j \in DOMAIN store.documents :
            i # j => store.documents[i].chunk_id # store.documents[j].chunk_id

\* ------------------------------------------------------------------------
\* Properties of the boosts of VectorStore.retrieve (QuerySpec)
\* ------------------------------------------------------------------------
\* the last call of retrieve has scored the passages of the store
Scored == Returned /\ ~NothingIndexed(store) /\ QueryEncoder(store) # None

\* what the score of passage i holds beyond the combined score and the
\* chapter and section boosts
MentionBoosts(i) ==
    Scores[i] - BaseScores(store, env, call.query)[i]
    - ChapterBoostOf(call.query, store.documents[i])
    - SectionBoostOf(call.query, store.documents[i])

\* the query holds "article" followed by the number n, as a whole number
NamesArticle(query, n) ==
    \E k \in 1..(Len(query) - 1) : query[k] = "article" /\ query[k + 1] = n

\* the query holds the name of a regulation, as a word of its own
NamesRegulation(query, regulation) ==
    CASE regulation = "DORA" -> \E k \in DOMAIN query : query[k] = "dora"
      [] regulation = "GDPR" -> \E k \in DOMAIN query : query[k] = "gdpr"
      [] regulation = "EU AI Act" ->
           \E k \in 1..(Len(query) - 1) : query[k] = "ai" /\ query[k + 1] = "act"

\* C16: a passage gets the exact-article boost if and only if the query names
\* an article number N as a whole number and the label of the passage is
\* exactly Article N.
C16_ExactArticleBoostIff ==
    Scored =>
        \A i \in DOMAIN store.documents :
            LET doc == store.documents[i]
                exact == \E n \in DigitTokens :
                            NamesArticle(call.query, n) /\ doc.article = Label("Article", n, "")
            IN  MentionBoosts(i) - RegulationBoostOf(call.query, doc)
                    = IF exact THEN ArticleBoost ELSE 0

\* C17: for a query that names no regulation and no article number, over a
\* corpus of all three sources, no passage gets the regulation-mention boost
\* or the exact-article boost.
C17_NoMentionNoBoost ==
    (/\ Scored
     /\ \A r \in Regulations :
           /\ ~NamesRegulation(call.query, r)
           /\ \E i \in DOMAIN store.documents : store.documents[i].regulation = r
     /\ \A n \in DigitTokens : ~NamesArticle(call.query, n)) =>
        \A i \in DOMAIN store.documents : MentionBoosts(i) = 0

\* ------------------------------------------------------------------------
\* Properties of the confidence of an answer (RagSpec)
\* ------------------------------------------------------------------------
\* the warnings about the quality of the retrieval: "Low retrieval
\* confidence ...", "Low retrieval quality; answer suppressed ...", "No
\* relevant passages were retrieved ..."
LowQualityWarnings == {"low_confidence", "suppressed", "no_passages"}

WarnsOfLowQuality ==
    \E k \in DOMAIN rag.response.warnings :
        rag.response.warnings[k].kind \in LowQualityWarnings

\* C18: an answer given after a retrieval of low confidence, generation not
\* having failed, has confidence "low" and a warning about the quality of the
\* retrieval; an answer of confidence "medium" or "high" has no such warning.
C18_LowConfidenceDistinguished ==
    (Answered /\ ValidCredentials) =>
        /\ (LowConfidence /\ rag.response.answer # "error") =>
              (rag.response.confidence = "low" /\ WarnsOfLowQuality)
        /\ rag.response.confidence \in {"medium", "high"} => ~WarnsOfLowQuality

\* C18, its case: passages of low confidence were retrieved, one of them above
\* the suppression threshold, and the answer was generated
C18_GeneratedOnLowConfidence ==
    /\ Answered
    /\ LowConfidence
    /\ rag.trace.retrieved # <<>>
    /\ rag.response.answer = "generated"

\* ------------------------------------------------------------------------
\* Properties of concurrent requests (ThreadSpec)
\* ------------------------------------------------------------------------
\* C19: whatever the interleaving of the threads, the semantic model is
\* constructed at most once, and no step clears or replaces a model that fits
\* the matrix.
C19_SingleInitialization ==
    [][/\ threads'.loads <= 1
       /\ (store.embeddings # None /\ LoadedSemanticFits(store)) =>
              store'.model = store.model]_vars

\* ------------------------------------------------------------------------
\* Frame of VectorStore.retrieve on a loaded index (EncoderSpec)
\* ------------------------------------------------------------------------
\* C20: on a store that holds a loaded index, a retrieve call leaves the
\* passage list and the embedding matrix as they were before the call, also
\* when the call runs the encoder fallback chain.
C20_RetrieveLeavesIndexUnchanged ==
    [][(~NothingIndexed(store) /\ call'.op = "retrieve") =>
          /\ store'.documents = store.documents
          /\ store'.embeddings = store.embeddings]_vars

\* ------------------------------------------------------------------------
\* Properties of a rebuild beside a serving process (RebuildSpec)
\* ------------------------------------------------------------------------
\* the passages and the matrix a store holds are those of these artifacts
LoadedFrom(artifacts) ==
    /\ artifacts.documents_json.state = "ok"
    /\ artifacts.embeddings_npy.state = "ok"
    /\ store.documents = [i \in DOMAIN Val(artifacts.documents_json.content) |->
                             LoadDocument(Val(artifacts.documents_json.content)[i])]
    /\ store.embeddings = Some(Val(artifacts.embeddings_npy.content))

\* C21: a VectorStore that has loaded an index from a directory in which a
\* rebuild is saving holds a manifest and a matrix of one build: those the
\* directory held before the rebuild, or those the rebuild writes.
C21_LoadSeesOneBuild ==
    (build.pc # "none" /\ call.op = "init" /\ ~NothingIndexed(store)) =>
        \/ LoadedFrom(build.old)
        \/ LoadedFrom(save_to_disk(build.store, build.old))

\* ------------------------------------------------------------------------
\* Properties of RAGEngine._retrieve_with_fallbacks (RagSpec)
\* ------------------------------------------------------------------------
\* the highest score with which a passage was returned by a pass
HighestReached(reached, document) ==
    LET scores == {reached[i].score :
                      i \in {j \in DOMAIN reached : reached[j].document = document}}
    IN  CHOOSE x \in scores : \A y \in scores : y <= x

\* C22: every passage that a retrieval pass of _retrieve_with_fallbacks
\* returned is an entry of the merged set, with the highest score that any
\* pass gave it, and the returned list is in non-increasing order of score.
C22_MergeKeepsHighestScore ==
    Answered =>
        LET reached == rag.trace.retrieval.reached
            merged  == rag.trace.retrieval.merged
            ranked  == rag.trace.retrieved
        IN  /\ \A i \in DOMAIN reached :
                  \E j \in DOMAIN merged :
                     /\ merged[j].document = reached[i].document
                     /\ merged[j].score = HighestReached(reached, reached[i].document)
            /\ \A i, j \in DOMAIN ranked : i < j => ranked[i].score >= ranked[j].score

\* the last call of answer_question retrieved under a regulation focus
RetrievedWithFocus == Answered /\ rag.trace.plan.regulation_focus # "all"

\* the distinct passages the filtered passes returned
FilteredPassages ==
    {rag.trace.retrieval.filtered_reached[i].document :
        i \in DOMAIN rag.trace.retrieval.filtered_reached}

\* C23: with a regulation focus, the unfiltered passes are issued if and only
\* if the filtered passes, all of which run first, returned fewer than 3
\* distinct passages; only then can a passage of another regulation be in the
\* result.
C23_UnfilteredRetryIffThin ==
    RetrievedWithFocus =>
        /\ rag.trace.retrieval.retried <=> Cardinality(FilteredPassages) < WeakMerge
        /\ (\E i \in DOMAIN rag.trace.retrieved :
                rag.trace.retrieved[i].document.regulation
                    # rag.trace.plan.regulation_focus)
              => rag.trace.retrieval.retried

\* how many of the retrieved passages are in one of these tiers
InTiers(tiers) ==
    Cardinality({i \in DOMAIN rag.trace.retrieved :
                    rag.trace.retrieved[i].confidence \in tiers})

\* C24: _assess_confidence gives high for at least 2 passages of the high
\* tier, otherwise medium for at least 1 passage of the medium or high tier,
\* otherwise low, the empty list included.
C24_ConfidenceFromTiers ==
    Answered =>
        assess_confidence(rag.trace.retrieved) =
            IF InTiers({"high"}) >= 2 THEN "high"
            ELSE IF InTiers({"medium", "high"}) >= 1 THEN "medium"
            ELSE "low"

\* C24, its case: a single passage of the high tier among the retrieved ones,
\* which is not enough for high
C24_OneHighPassage ==
    /\ Answered
    /\ InTiers({"high"}) = 1
    /\ Len(rag.trace.retrieved) > 1
    /\ assess_confidence(rag.trace.retrieved) = "medium"

\* ------------------------------------------------------------------------
\* The regulation filter of VectorStore.retrieve (QuerySpec)
\* ------------------------------------------------------------------------
\* the full ranking of the last call's query without a filter: every passage
\* with a score of at least min_score, in the order of retrieve
FullRanking ==
    Score(store, env, call.query, Len(store.documents) + 1, "", call.min_score).results

\* the entries of a ranking whose passage has this regulation
RECURSIVE RestrictedTo(_, _)
RestrictedTo(ranking, regulation) ==
    IF ranking = <<>> THEN <<>>
    ELSE (IF Head(ranking).document.regulation = regulation THEN <<Head(ranking)>>
          ELSE <<>>) \o RestrictedTo(Tail(ranking), regulation)

\* C25: the result of retrieve with a filter F is the first top_k entries of
\* the unfiltered full ranking restricted to the passages of F, with the same
\* scores in the same order.
C25_FilterIndependentRanking ==
    (Returned /\ call.regulation_filter # "" /\ ~NothingIndexed(store)) =>
        \E restricted \in {RestrictedTo(FullRanking, call.regulation_filter)} :
            call.results = SubSeq(restricted, 1, Min2(call.top_k, Len(restricted)))

\* ------------------------------------------------------------------------
\* Properties of RAGEngine._build_query_plan (RagSpec)
\* ------------------------------------------------------------------------
\* the regulation focus the caller's context supplies
SuppliedFocus == MetaGet(rag.context, "regulation_focus", "all")

\* the regulations the question names
NamedRegulations == {r \in Regulations : NamesRegulation(rag.question, r)}

\* the question asks to compare
Compares == \E k \in DOMAIN rag.question : rag.question[k] = "compare"

\* C26: when the context supplies no valid single-regulation focus, the
\* focus of the plan is "all" if the question names no regulation or asks to
\* compare, and a regulation the question names otherwise; a valid
\* single-regulation focus of the context is kept.
C26_FocusInference ==
    Answered =>
        IF SuppliedFocus \in Regulations
        THEN rag.trace.plan.regulation_focus = SuppliedFocus
        ELSE IF NamedRegulations = {} \/ Compares
        THEN rag.trace.plan.regulation_focus = "all"
        ELSE rag.trace.plan.regulation_focus \in NamedRegulations

\* the article numbers the question names
DetectedNumbers == {n \in DigitTokens : NamesArticle(rag.question, n)}

\* is this query the article query of number n?
IsArticleQuery(query, n) ==
    \/ query = <<"article", n, "eu", "ai", "act", "gdpr", "dora">>
    \/ \E r \in Regulations : query = <<"article", n>> \o RegTokens(r)

\* C27: the search queries of the plan begin with the expanded question, no
\* two of them are equal, and one of them is the article query of each
\* article number the question names; article_numbers holds each of these
\* numbers once.
C27_PlanQueries ==
    Answered =>
        LET plan == rag.trace.plan IN
        /\ plan.search_queries # <<>>
        /\ plan.search_queries[1] = expand_query(rag.question, plan.intent)
        /\ \A i, j \in DOMAIN plan.search_queries :
              plan.search_queries[i] = plan.search_queries[j] => i = j
        /\ \A n \in DetectedNumbers :
              Cardinality({i \in DOMAIN plan.search_queries :
                              IsArticleQuery(plan.search_queries[i], n)}) = 1
        /\ Range(plan.article_numbers) = DetectedNumbers
        /\ \A i, j \in DOMAIN plan.article_numbers :
              plan.article_numbers[i] = plan.article_numbers[j] => i = j

\* ------------------------------------------------------------------------
\* Properties of the chunk ids of _extract_articles (IdSpec)
\* ------------------------------------------------------------------------
\* (article number, paragraph) of chunk a comes before that of chunk b
PairLess(a, b) ==
    a.number < b.number \/ (a.number = b.number /\ a.paragraph < b.paragraph)

\* C28: for two article chunks of one source, with article numbers up to 999,
\* the chunk ids are in lexicographic order exactly when the pairs (article
\* number, paragraph index) are in numeric order.
C28_IdOrderIsNumericOrder ==
    (call.op = "extract_articles"
     /\ call.chunks[1].suffix = <<>> /\ call.chunks[2].suffix = <<>>) =>
        (StrLess(call.chunks[1].chunk_id, call.chunks[2].chunk_id)
            <=> PairLess(call.chunks[1], call.chunks[2]))

\* ------------------------------------------------------------------------
\* The direct article lookup and the suppression gate (RagSpec)
\* ------------------------------------------------------------------------
\* the direct lookup of the last call found an article passage
LookupFound == Answered /\ rag.trace.retrieval.looked_up # <<>>

\* C29: when the direct article lookup finds a passage, the returned list
\* holds a passage with a score of at least 0.31, the overall confidence is
\* medium or high, and the answer is not suppressed.
C29_LookupLiftsConfidence ==
    LookupFound =>
        /\ \E k \in DOMAIN rag.trace.retrieved :
              rag.trace.retrieved[k].score >= GlobalLookupScore
        /\ assess_confidence(rag.trace.retrieved) \in {"medium", "high"}
        /\ rag.response.answer # "suppressed"

\* C29, its case: the retrieve passes alone gave low confidence, the lookup
\* found a passage and the answer was generated with medium confidence
C29_LookupAfterWeakRetrieval ==
    /\ LookupFound
    /\ assess_confidence(rag.trace.retrieval.searched) = "low"
    /\ rag.response.answer = "generated"
    /\ rag.response.confidence = "medium"

\* ------------------------------------------------------------------------
\* The order of the steps of answer_question (RagSpec)
\* ------------------------------------------------------------------------
\* the generation of the last call raised: the provider failed or is unknown
GenerationFailed ==
    /\ rag.op = "answer"
    /\ rag.trace.generation_calls = 1
    /\ (rag.llm.fails \/ rag.creds.llm_provider \notin Providers)

\* C30: answer_question calls the generation service at most once and sends
\* at most one request, and only with credentials, over a store that held an
\* index when the call began, after the retrieval passes have finished
\* without raising and the gate has not suppressed; citations are verified
\* only after a generation that succeeded; when generation fails the response
\* has confidence "none" and no passages.
C30_GenerationOnceAndLast ==
    [][(rag' # rag /\ rag'.op = "answer") =>
          /\ rag'.trace.generation_calls <= 1
          /\ rag'.trace.requests <= rag'.trace.generation_calls
          /\ rag'.trace.generation_calls = 1 =>
                /\ ValidCredentials'
                /\ ~NothingIndexed(store)
                /\ Answered'
                /\ ~(LowConfidence' /\ AllBelowSuppression')
          /\ rag'.trace.verified =>
                /\ rag'.trace.generation_calls = 1
                /\ ~GenerationFailed'
                /\ rag'.response.answer = "generated"
          /\ GenerationFailed' =>
                /\ rag'.response.confidence = "none"
                /\ rag'.response.retrieved_passages = <<>>
                /\ ~rag'.trace.verified]_vars

\* C30, its case: passages passed the gate, the one request failed, and the
\* response carries neither passages nor a confidence
C30_FailedAfterRetrieval ==
    /\ GenerationFailed
    /\ rag.llm.fails
    /\ rag.trace.requests = 1
    /\ rag.trace.retrieved # <<>>
    /\ rag.response.answer = "error"
    /\ rag.response.retrieved_passages = <<>>

====
